---- MODULE Spec2Model ----
(***************************************************************************)
(* Account ledger and transfer engine of the freelancer portal.            *)
(*                                                                         *)
(* Money is an integer number of tenths of a cent (0.001 of a currency     *)
(* unit): 10 is one cent, 5 is half a cent.  Arithmetic is exact: the      *)
(* representation error of binary64 is not modelled.                       *)
(*                                                                         *)
(* The store is the relational store (accounts, account_balance_history,   *)
(* account_transfers, expenses).  A store call that returns an error is an *)
(* input of the handler that makes it (the set `fails`).  Every handler is *)
(* one action.  `last` records the handler that ran last, its inputs and   *)
(* the message it showed to the user.                                      *)
(***************************************************************************)
EXTENDS Integers, Sequences, FiniteSets, TLC

\* ---------------------------------------------------------------- bounds
MaxAccounts == 2
MaxExpenses == 1
MaxOps == 2
MaxFaults == 1
\* calls of updateAccountBalance that can be under way at the same time
MaxPosters == 2
\* clicks on the Delete button of the confirmation dialog
MaxDeleteClicks == 2

AccountIds == 1..MaxAccounts
ExpenseIds == 1..MaxExpenses
PosterIds == 1..MaxPosters
DeleteCallIds == 1..MaxDeleteClicks
NoId == 0

AccountTypes == {"bank_account", "credit_card"}
Statuses == {"active", "closed"}
Currencies == {"PHP", "USD"}
Operations == {"add", "remove"}

\* amounts a caller can hand to the posting primitive (0, half a cent, ...)
PostAmounts == {0, 5, 10, 15}
\* what the user can type into an amount or balance field
NaNInput == [nan |-> TRUE, v |-> 0]
TransferInputs == {NaNInput} \cup {[nan |-> FALSE, v |-> x] : x \in {0, 5, 10}}
BalanceInputs == {NaNInput} \cup {[nan |-> FALSE, v |-> x] : x \in {0, 10}}
ExpenseAmounts == {5, 10, 15}
EditInputs == {NaNInput} \cup {[nan |-> FALSE, v |-> x] : x \in {0, 10, 15, 20}}
OpeningBalances == {0, 20}
\* amounts of the postings that run side by side
RaceAmounts == {10}

\* the FX rate cache: clock ticks of 12 hours, concurrent callers, provider calls
MaxTime == 3
MaxCallers == 2
MaxFetches == 3
\* rows of the history of the account shown, and days
MaxEntries == 3
MaxDay == 1
\* CACHE_TTL = 24 * 60 * 60 * 1000 ms, in ticks
CACHE_TTL == 2
CallerIds == 1..MaxCallers
FxBases == Currencies
\* a rate r stands for r / RateScale: 2 is the rate 1 exactly, 1 the rate 0.5
RateScale == 2
RateValues == {1, 2}
\* the currency argument of convertAmount: a currency, none, or one no table has
FromCurrencies == Currencies \cup {"", "XYZ"}
ConvertInputs == {0, 10, 20, 30, 40, 50}

VARIABLES
  accounts,        \* store, table accounts
  history,         \* store, table account_balance_history, per account in insertion order
  transfers,       \* store, table account_transfers, in insertion order
  expenses,        \* store, table expenses
  nextAccountId,   \* ids are never reused
  nextExpenseId,
  tblAccounts,     \* AccountTable: useState(initialAccounts)
  transferOpen,    \* AccountTable: transfer dialog state
  transferFromId,
  transferToId,
  formAccounts,    \* NewExpenseDialog: accounts offered by the expense form
  expAccounts,     \* ExpenseTable: accounts prop
  expLocal,        \* ExpenseTable: useState(initialExpenses)
  editExpense,     \* ExpenseTable: the row the edit dialog was opened with
  last,            \* the handler that ran last: inputs, failed calls, message
  ops,             \* handlers run so far
  faults,          \* store calls that failed so far
  cache,           \* types.ts: let cache: RatesCache | null
  now,             \* Date.now(), in ticks
  fxCalls,         \* getExchangeRates calls waiting for fetchRates
  fetches,         \* requests sent to the provider so far
  lastFx,          \* the getExchangeRates call that ended last
  converted,       \* the convertAmount call made last
  perBase,         \* per base, the table, fetch time and answer of the last refresh of a call made on its own
  postings,        \* updateAccountBalance calls under way, each at one of its awaits
  balanceWrites,   \* per account, the calls whose update of current_balance took effect, in order
  xfer,            \* AccountTable.handleTransfer under way: its values, the calls sent and returned
  deleteId,        \* ExpenseTable: useState<string | null>(null), the expense to confirm
  deleteCalls,     \* ExpenseTable.handleDelete invocations, each before or after its await
  deletePostings,  \* per expense, the calls of updateAccountBalance its deletion made
  today,           \* new Date().toISOString().split("T")[0] and the store's current_date, as a day number
  detailAccount,   \* AccountDetail: useState(initialAccount)
  detailHistory,   \* AccountDetail: useState(initialHistory)
  chart            \* AccountDetail: chartData of the render made last, and the list it was built from

storeVars == <<accounts, history, transfers, expenses, nextAccountId, nextExpenseId>>
transferVars == <<transferOpen, transferFromId, transferToId>>
expenseUiVars == <<formAccounts, expAccounts, expLocal, editExpense>>
fxVars == <<cache, now, fxCalls, fetches, lastFx, converted, perBase>>
raceVars == <<postings, balanceWrites>>
deleteVars == <<deleteId, deleteCalls, deletePostings>>
stepVars == <<xfer, deleteId, deleteCalls, deletePostings>>
detailVars == <<today, detailAccount, detailHistory, chart>>
ledgerVars == <<accounts, history, transfers, expenses, nextAccountId, nextExpenseId,
                tblAccounts, transferOpen, transferFromId, transferToId,
                formAccounts, expAccounts, expLocal, editExpense, last, ops, faults>>
vars == <<accounts, history, transfers, expenses, nextAccountId, nextExpenseId,
          tblAccounts, transferOpen, transferFromId, transferToId,
          formAccounts, expAccounts, expLocal, editExpense, last, ops, faults,
          cache, now, fxCalls, fetches, lastFx, converted, perBase, postings, balanceWrites,
          xfer, deleteId, deleteCalls, deletePostings,
          today, detailAccount, detailHistory, chart>>

\* ---------------------------------------------------------------- rows
NoAccount == [exists |-> FALSE, account_type |-> "bank_account", currency |-> "PHP",
              current_balance |-> 0, status |-> "active"]
NoOption == [present |-> FALSE, account_type |-> "bank_account", currency |-> "PHP"]
NoExpense == [exists |-> FALSE, amount |-> 0, currency |-> "PHP", account_id |-> NoId]
\* useState<Expense | null>(null)
NoEdit == [open |-> FALSE, id |-> NoId, amount |-> 0, account_id |-> NoId]

LastNone == [op |-> "none", acct |-> NoId, acct2 |-> NoId, exp |-> NoId, amount |-> 0,
             accountType |-> "bank_account", operation |-> "add", fails |-> {},
             toast |-> "none", posted |-> FALSE, preBal |-> 0, preHist |-> 0, old |-> 0]

\* a rate table is the list of its (currency, rate) entries in the order of
\* the keys of the object
EmptyTable == << >>
NoCache == [present |-> FALSE, base |-> "PHP", rates |-> EmptyTable, fetchedAt |-> 0]
\* per base: no table got yet
NoRefresh == [present |-> FALSE, rates |-> EmptyTable, fetchedAt |-> 0, outcome |-> "none"]
NoCall == [fetching |-> FALSE, base |-> "PHP", at |-> 0]
LastFxNone == [op |-> "none", base |-> "PHP", at |-> 0, outcome |-> "none",
               rates |-> EmptyTable, fetched |-> EmptyTable]
NoConversion == [done |-> FALSE, amount |-> 0, from |-> "", rates |-> EmptyTable, result |-> 0]

\* module load: no cache entry, no call under way
FxIdle ==
  /\ cache = NoCache
  /\ now = 0
  /\ fxCalls = [c \in CallerIds |-> NoCall]
  /\ fetches = 0
  /\ lastFx = LastFxNone
  /\ converted = NoConversion
  /\ perBase = [b \in Currencies |-> NoRefresh]

\* a call of updateAccountBalance: where it is, its arguments, what its select
\* returned, the balance it computed, which calls of its Promise.all ended
NoPosting == [pc |-> "idle", acct |-> NoId, amount |-> 0, accountType |-> "bank_account",
              operation |-> "add", current |-> 0, newBalance |-> 0, seen |-> 0,
              updateDone |-> FALSE, insertDone |-> FALSE, wrote |-> FALSE]

\* no posting under way
RaceIdle ==
  /\ postings = [p \in PosterIds |-> NoPosting]
  /\ balanceWrites = [a \in AccountIds |-> << >>]

\* handleTransfer between its awaits: the rows and balances it computed, the
\* store calls sent and not yet returned, and every send and return so far
NoTransfer == [running |-> FALSE, from |-> NoId, to |-> NoId, amount |-> 0,
               newFromBalance |-> 0, newToBalance |-> 0, currency |-> "PHP",
               inFlight |-> {}, log |-> << >>, toast |-> "none"]

\* an invocation of ExpenseTable.handleDelete: the id and the row it found
\* in the table when it was invoked
NoDeleteCall == [pc |-> "idle", id |-> NoId, expToDelete |-> NoExpense]

\* no handler between two of its awaits
StepIdle ==
  /\ xfer = NoTransfer
  /\ deleteId = NoId
  /\ deleteCalls = [i \in DeleteCallIds |-> NoDeleteCall]
  /\ deletePostings = [e \in ExpenseIds |-> 0]

\* the detail page of an account before it is loaded
NoDetail == [open |-> FALSE, id |-> NoId, current_balance |-> 0]
NoChart == [built |-> FALSE, input |-> << >>, history |-> << >>, sorted |-> << >>,
            chartData |-> << >>, again |-> FALSE, previous |-> << >>]
DetailClosed ==
  /\ today = 0
  /\ detailAccount = NoDetail
  /\ detailHistory = << >>
  /\ chart = NoChart

\* ---------------------------------------------------------------- arithmetic
\* Math.round(x * 100) / 100: nearest cent, a half rounds towards +infinity
Round2(x) == ((x + 5) \div 10) * 10

\* a numeric(12,2) column rounds the value it is given half away from zero
StoreNumeric(x) == IF x >= 0 THEN ((x + 5) \div 10) * 10 ELSE 0 - (((0 - x) + 5) \div 10) * 10

\* the sign rule with the account type ignored: every account as a credit card
DeltaIgnoresType(accountType, operation, amount) ==
  IF operation = "add" THEN amount ELSE 0 - amount

\* the sign rule with the operation ignored: every posting as an "add"
DeltaIgnoresOperation(accountType, operation, amount) ==
  IF accountType = "credit_card" THEN amount ELSE 0 - amount

\* the sign rule of updateAccountBalance
Delta(accountType, operation, amount) ==
  IF accountType = "credit_card"
    THEN (IF operation = "add" THEN amount ELSE 0 - amount)
    ELSE (IF operation = "add" THEN 0 - amount ELSE amount)

\* the posting with the result of the read not looked at: a failed read counts
\* as a balance of 0
UpdateAccountBalanceUnchecked(accts, hist, accountId, amount, accountType, operation, note, fails) ==
  LET current == IF ~accts[accountId].exists \/ "read" \in fails THEN 0
                 ELSE accts[accountId].current_balance
      newBalance == Round2(current + Delta(accountType, operation, amount))
  IN [accounts |-> IF "update" \in fails \/ ~accts[accountId].exists THEN accts
                   ELSE [accts EXCEPT ![accountId].current_balance = StoreNumeric(newBalance)],
      history |-> IF "history" \in fails \/ ~accts[accountId].exists THEN hist
                  ELSE [hist EXCEPT ![accountId] =
                          Append(@, [balance |-> StoreNumeric(newBalance), note |-> note])]]

\* the posting with the history row written as an upsert keyed by the account:
\* the new entry takes the place of the entries the account had
UpdateAccountBalanceUpsert(accts, hist, accountId, amount, accountType, operation, note, fails) ==
  IF ~accts[accountId].exists \/ "read" \in fails
    THEN [accounts |-> accts, history |-> hist]
    ELSE LET current == accts[accountId].current_balance
             newBalance == Round2(current + Delta(accountType, operation, amount))
         IN [accounts |-> IF "update" \in fails THEN accts
                          ELSE [accts EXCEPT ![accountId].current_balance = StoreNumeric(newBalance)],
             history |-> IF "history" \in fails THEN hist
                         ELSE [hist EXCEPT ![accountId] =
                                 <<[balance |-> StoreNumeric(newBalance), note |-> note]>>]]

\* ---------------------------------------------------------------- posting primitive
\* updateAccountBalance: the store after the call.  The read fails when the
\* row is gone or the call errors; the update and the insert of Promise.all
\* are independent and neither result is looked at.
UpdateAccountBalance(accts, hist, accountId, amount, accountType, operation, note, fails) ==
  IF ~accts[accountId].exists \/ "read" \in fails
    THEN [accounts |-> accts, history |-> hist]
    ELSE LET current == accts[accountId].current_balance
             newBalance == Round2(current + Delta(accountType, operation, amount))
         IN [accounts |-> IF "update" \in fails THEN accts
                          ELSE [accts EXCEPT ![accountId].current_balance = StoreNumeric(newBalance)],
             history |-> IF "history" \in fails THEN hist
                         ELSE [hist EXCEPT ![accountId] =
                                 Append(@, [balance |-> StoreNumeric(newBalance), note |-> note])]]

\* the sets of failing calls a handler can meet, within the fault budget, while
\* the run may still call a handler
FailSets(calls) ==
  IF ops < MaxOps THEN {f \in SUBSET calls : faults + Cardinality(f) <= MaxFaults} ELSE {}

Snapshot(row) == [present |-> row.exists, account_type |-> row.account_type,
                  currency |-> row.currency, current_balance |-> row.current_balance,
                  status |-> row.status]
NoSnapshot == Snapshot(NoAccount)

\* .select("id, account_name, account_type, currency").eq("status", "active")
ActiveOption(row) ==
  IF row.exists /\ row.status = "active"
    THEN [present |-> TRUE, account_type |-> row.account_type, currency |-> row.currency]
    ELSE NoOption

\* ---------------------------------------------------------------- initial state
\* Two accounts have been created through the account form, each with its
\* opening history entry, and the accounts page and the expenses page have
\* been loaded; the new-expense dialog has not been opened.
InitWith(t2, b1, b2) ==
  /\ accounts = [a \in AccountIds |->
                   IF a = 1 THEN [exists |-> TRUE, account_type |-> "bank_account",
                                  currency |-> "PHP", current_balance |-> b1, status |-> "active"]
                   ELSE IF a = 2 THEN [exists |-> TRUE, account_type |-> t2,
                                  currency |-> "PHP", current_balance |-> b2, status |-> "active"]
                   ELSE NoAccount]
  /\ history = [a \in AccountIds |->
                  IF a = 1 THEN <<[balance |-> b1, note |-> "Opening balance"]>>
                  ELSE IF a = 2 THEN <<[balance |-> b2, note |-> "Opening balance"]>>
                  ELSE <<>>]
  /\ transfers = <<>>
  /\ expenses = [e \in ExpenseIds |-> NoExpense]
  /\ nextAccountId = MaxAccounts + 1
  /\ nextExpenseId = 1
  /\ tblAccounts = [a \in AccountIds |-> Snapshot(accounts[a])]
  /\ transferOpen = FALSE
  /\ transferFromId = NoId
  /\ transferToId = NoId
  /\ formAccounts = [a \in AccountIds |-> NoOption]
  /\ expAccounts = [a \in AccountIds |-> ActiveOption(accounts[a])]
  /\ expLocal = [e \in ExpenseIds |-> NoExpense]
  /\ editExpense = NoEdit
  /\ last = LastNone
  /\ ops = 0
  /\ faults = 0
  /\ FxIdle
  /\ RaceIdle
  /\ StepIdle
  /\ DetailClosed

Init == \E t2 \in AccountTypes : InitWith(t2, 20, 20)

\* The same two accounts after one expense of 0.01 has been logged against
\* account 2 through the expense form (ExpenseForm.onSubmit), the expenses
\* page loaded after it. Runs from here edit and delete that expense; the
\* runs that log expenses start from Init.
InitLogged(t2) ==
  /\ accounts = [a \in AccountIds |->
                   IF a = 1 THEN [exists |-> TRUE, account_type |-> "bank_account",
                                  currency |-> "PHP", current_balance |-> 20, status |-> "active"]
                   ELSE IF a = 2 THEN [exists |-> TRUE, account_type |-> t2,
                                  currency |-> "PHP", current_balance |-> 20, status |-> "active"]
                   ELSE NoAccount]
  /\ history = [a \in AccountIds |->
                  IF a = 1 THEN <<[balance |-> 20, note |-> "Opening balance"]>>
                  ELSE IF a = 2
                    THEN <<[balance |-> 20 - Delta(t2, "add", 10), note |-> "Opening balance"],
                           [balance |-> 20, note |-> "Expense"]>>
                  ELSE <<>>]
  /\ transfers = <<>>
  /\ expenses = [e \in ExpenseIds |->
                   IF e = 1 THEN [exists |-> TRUE, amount |-> 10, currency |-> "PHP",
                                  account_id |-> 2]
                   ELSE NoExpense]
  /\ nextAccountId = MaxAccounts + 1
  /\ nextExpenseId = MaxExpenses + 1
  /\ tblAccounts = [a \in AccountIds |-> Snapshot(accounts[a])]
  /\ transferOpen = FALSE
  /\ transferFromId = NoId
  /\ transferToId = NoId
  /\ formAccounts = [a \in AccountIds |-> NoOption]
  /\ expAccounts = [a \in AccountIds |-> ActiveOption(accounts[a])]
  /\ expLocal = expenses
  /\ editExpense = NoEdit
  /\ last = LastNone
  /\ ops = 0
  /\ faults = 0
  /\ FxIdle
  /\ RaceIdle
  /\ StepIdle
  /\ DetailClosed

InitExpense == Init \/ \E t2 \in AccountTypes : InitLogged(t2)

\* ---------------------------------------------------------------- the primitive on its own
\* A caller hands updateAccountBalance an account id, an amount >= 0, an
\* account type and an operation.
Post(a, amount, accountType, operation, fails) ==
  /\ ops < MaxOps
  /\ LET r == UpdateAccountBalance(accounts, history, a, amount, accountType, operation,
                                   "Expense", fails)
     IN /\ accounts' = r.accounts
        /\ history' = r.history
  /\ last' = [LastNone EXCEPT !.op = "post", !.acct = a, !.amount = amount,
                !.accountType = accountType, !.operation = operation, !.fails = fails,
                !.posted = (accounts[a].exists /\ "read" \notin fails),
                !.preBal = accounts[a].current_balance, !.preHist = Len(history[a])]
  /\ ops' = ops + 1
  /\ faults' = faults + Cardinality(fails)
  /\ UNCHANGED <<detailVars, fxVars, raceVars, stepVars, transfers, expenses, nextAccountId, nextExpenseId, tblAccounts,
                 transferVars, expenseUiVars>>

NextPost ==
  \E fails \in FailSets({"read", "update", "history"}) :
    \E a \in AccountIds, amount \in PostAmounts, t \in AccountTypes, o \in Operations :
      Post(a, amount, t, o, fails)

\* the starting balances are whole cents, as the store keeps them
InitPost == \E b1 \in OpeningBalances, b2 \in OpeningBalances : InitWith("credit_card", b1, b2)

SpecPost == InitPost /\ [][NextPost]_vars

\* ---------------------------------------------------------------- the primitive, call by call
\* updateAccountBalance is async: between its select and its Promise.all, and
\* while the two calls of the Promise.all are under way, other calls of it run.
\* A store call ends well or, within the fault budget, with an error.
CallOutcomes == IF faults < MaxFaults THEN {TRUE, FALSE} ELSE {TRUE}

\* the call is made: the select is sent
BeginPosting(p, a, amount, accountType, operation) ==
  /\ postings[p].pc = "idle"
  /\ postings' = [postings EXCEPT ![p] =
                    [NoPosting EXCEPT !.pc = "reading", !.acct = a, !.amount = amount,
                                      !.accountType = accountType, !.operation = operation]]
  /\ UNCHANGED <<detailVars, ledgerVars, fxVars, stepVars, balanceWrites>>

\* the select returns: if (fetchError || !account) return; otherwise the new
\* balance is computed from the balance read and the two writes are sent
PostingSelect(p, ok) ==
  /\ postings[p].pc = "reading"
  /\ LET call == postings[p]
         row == accounts[call.acct]
         current == row.current_balance
     IN postings' = [postings EXCEPT ![p] =
                       IF ok /\ row.exists
                         THEN [call EXCEPT !.pc = "writing", !.current = current,
                                 !.newBalance = Round2(current + Delta(call.accountType,
                                                                       call.operation,
                                                                       call.amount)),
                                 !.seen = Len(balanceWrites[call.acct])]
                         ELSE [call EXCEPT !.pc = "done"]]
  /\ faults' = faults + (IF ok THEN 0 ELSE 1)
  /\ UNCHANGED <<accounts, history, transfers, expenses, nextAccountId, nextExpenseId,
                 tblAccounts, transferVars, expenseUiVars, last, ops, fxVars, stepVars, detailVars, balanceWrites>>

\* the update written as an increment of the stored balance by the delta
PostingUpdateIncrement(p, ok) ==
  /\ postings[p].pc = "writing"
  /\ ~postings[p].updateDone
  /\ LET call == postings[p]
         took == ok /\ accounts[call.acct].exists
         delta == Delta(call.accountType, call.operation, call.amount)
     IN /\ accounts' = IF took
                         THEN [accounts EXCEPT ![call.acct].current_balance =
                                 StoreNumeric(Round2(@ + delta))]
                         ELSE accounts
        /\ balanceWrites' = IF took THEN [balanceWrites EXCEPT ![call.acct] = Append(@, p)]
                            ELSE balanceWrites
        /\ postings' = [postings EXCEPT ![p] =
                          [call EXCEPT !.updateDone = TRUE, !.wrote = took,
                                       !.pc = IF call.insertDone THEN "done" ELSE "writing"]]
  /\ faults' = faults + (IF ok THEN 0 ELSE 1)
  /\ UNCHANGED <<history, transfers, expenses, nextAccountId, nextExpenseId,
                 tblAccounts, transferVars, expenseUiVars, last, ops, fxVars, stepVars, detailVars>>

\* .update({ current_balance: newBalance }).eq("id", accountId): the balance
\* computed after the select is written whatever the store holds by now
PostingUpdate(p, ok) ==
  /\ postings[p].pc = "writing"
  /\ ~postings[p].updateDone
  /\ LET call == postings[p]
         took == ok /\ accounts[call.acct].exists
     IN /\ accounts' = IF took
                         THEN [accounts EXCEPT ![call.acct].current_balance =
                                 StoreNumeric(call.newBalance)]
                         ELSE accounts
        /\ balanceWrites' = IF took THEN [balanceWrites EXCEPT ![call.acct] = Append(@, p)]
                            ELSE balanceWrites
        /\ postings' = [postings EXCEPT ![p] =
                          [call EXCEPT !.updateDone = TRUE, !.wrote = took,
                                       !.pc = IF call.insertDone THEN "done" ELSE "writing"]]
  /\ faults' = faults + (IF ok THEN 0 ELSE 1)
  /\ UNCHANGED <<history, transfers, expenses, nextAccountId, nextExpenseId,
                 tblAccounts, transferVars, expenseUiVars, last, ops, fxVars, stepVars, detailVars>>

\* the insert into account_balance_history of the same Promise.all
PostingInsert(p, ok) ==
  /\ postings[p].pc = "writing"
  /\ ~postings[p].insertDone
  /\ LET call == postings[p]
         took == ok /\ accounts[call.acct].exists
     IN /\ history' = IF took
                        THEN [history EXCEPT ![call.acct] =
                                Append(@, [balance |-> StoreNumeric(call.newBalance),
                                           note |-> "Expense"])]
                        ELSE history
        /\ postings' = [postings EXCEPT ![p] =
                          [call EXCEPT !.insertDone = TRUE,
                                       !.pc = IF call.updateDone THEN "done" ELSE "writing"]]
  /\ faults' = faults + (IF ok THEN 0 ELSE 1)
  /\ UNCHANGED <<accounts, transfers, expenses, nextAccountId, nextExpenseId,
                 tblAccounts, transferVars, expenseUiVars, last, ops, fxVars, stepVars, detailVars, balanceWrites>>

\* expense handlers call the primitive against the accounts of Init, each
\* with the type the store holds for the account
NextRace ==
  \/ \E p \in PosterIds, a \in AccountIds, amount \in RaceAmounts, o \in Operations :
       BeginPosting(p, a, amount, accounts[a].account_type, o)
  \/ \E p \in PosterIds : \E ok \in CallOutcomes : PostingSelect(p, ok)
  \/ \E p \in PosterIds : \E ok \in CallOutcomes : PostingUpdate(p, ok)
  \/ \E p \in PosterIds : \E ok \in CallOutcomes : PostingInsert(p, ok)

SpecRace == Init /\ [][NextRace]_vars

\* ---------------------------------------------------------------- claims on the primitive
PostWrote(l) == l.op = "post" /\ l.posted /\ "update" \notin l.fails

\* r is v rounded to 2 decimals, a half cent going up
IsRound2(r, v) == r % 10 = 0 /\ r - 5 <= v /\ v < r + 5

\* C1: every posting on a readable account writes round2(previous balance +
\* delta), delta = +amount for (credit_card, add) and (bank_account, remove),
\* -amount for (credit_card, remove) and (bank_account, add).
C1_PostingWritesRoundedDelta ==
  [][PostWrote(last') =>
       LET a == last'.acct
           delta == CASE last'.accountType = "credit_card" /\ last'.operation = "add" -> last'.amount
                      [] last'.accountType = "credit_card" /\ last'.operation = "remove" -> 0 - last'.amount
                      [] last'.accountType = "bank_account" /\ last'.operation = "add" -> 0 - last'.amount
                      [] last'.accountType = "bank_account" /\ last'.operation = "remove" -> last'.amount
       IN IsRound2(accounts'[a].current_balance, accounts[a].current_balance + delta)]_vars

\* a posting of half a cent was rounded up onto the next cent
C1_Witness ==
  /\ PostWrote(last) /\ last.amount = 5
  /\ last.accountType = "credit_card" /\ last.operation = "add"
  /\ accounts[last.acct].current_balance = last.preBal + 10

AddThenRemove(l1, l2) ==
  /\ PostWrote(l1) /\ PostWrote(l2)
  /\ l1.operation = "add" /\ l2.operation = "remove"
  /\ l1.acct = l2.acct /\ l1.accountType = l2.accountType /\ l1.amount = l2.amount

\* C9 as claimed: for every amount x >= 0, (x, add) immediately followed by
\* (x, remove) on the same account restores the starting balance.
C9_RoundTripAnyAmount ==
  [][AddThenRemove(last, last') => accounts'[last'.acct].current_balance = last.preBal]_vars

\* C9 amended: for every amount x >= 0 that is a whole number of cents,
\* (x, add) immediately followed by (x, remove) on the same account restores
\* the starting balance.
C9_RoundTripWholeCents ==
  [][(AddThenRemove(last, last') /\ last.amount % 10 = 0)
       => accounts'[last'.acct].current_balance = last.preBal]_vars

\* one cent was added and then removed: three history entries, the second
\* differs from the opening balance and the third equals it
C9_Witness ==
  /\ PostWrote(last) /\ last.operation = "remove" /\ last.amount = 10
  /\ Len(history[last.acct]) = 3
  /\ history[last.acct][2].note = "Expense"
  /\ history[last.acct][2].balance # history[last.acct][1].balance
  /\ history[last.acct][3].balance = history[last.acct][1].balance
  /\ accounts[last.acct].current_balance = history[last.acct][1].balance

\* ---------------------------------------------------------------- account pages
\* Every step is explored only while the run may still call a handler that
\* writes (ops < MaxOps): what a page shows after the last write of a run is
\* read by no later step.

\* AccountsPage: the table is mounted with the rows of the store
LoadAccountsPage ==
  /\ ops < MaxOps
  /\ tblAccounts' = [a \in AccountIds |-> Snapshot(accounts[a])]
  /\ transferOpen' = FALSE
  /\ transferFromId' = NoId
  /\ transferToId' = NoId
  /\ \/ tblAccounts' # tblAccounts
     \/ transferOpen
  /\ UNCHANGED <<detailVars, fxVars, raceVars, stepVars, storeVars, expenseUiVars, last, ops, faults>>

\* useRealtime callbacks of AccountTable: the change event of one account
\* arrives (onInsert, onUpdate merge the row, onDelete drops it).  Events are
\* advisory: this action may never happen.
RealtimeAccount(a) ==
  /\ ops < MaxOps
  /\ tblAccounts[a] # Snapshot(accounts[a])
  /\ tblAccounts' = [tblAccounts EXCEPT ![a] = Snapshot(accounts[a])]
  /\ UNCHANGED <<detailVars, fxVars, raceVars, stepVars, storeVars, transferVars, expenseUiVars, last, ops, faults>>

\* AccountForm.onSubmit, create branch
CreateAccount(accountType, currency, status, balance, fails) ==
  /\ ops < MaxOps
  /\ nextAccountId \in AccountIds
  /\ "insertAccount" \in fails => "openingHistory" \notin fails
  /\ LET id == nextAccountId
         inserted == "insertAccount" \notin fails
         logged == inserted /\ "openingHistory" \notin fails
     IN /\ accounts' = IF inserted
                         THEN [accounts EXCEPT ![id] =
                                 [exists |-> TRUE, account_type |-> accountType, currency |-> currency,
                                  current_balance |-> StoreNumeric(balance), status |-> status]]
                         ELSE accounts
        /\ history' = IF logged
                        THEN [history EXCEPT ![id] =
                                <<[balance |-> StoreNumeric(balance), note |-> "Opening balance"]>>]
                        ELSE history
        /\ nextAccountId' = IF inserted THEN id + 1 ELSE id
        /\ last' = [LastNone EXCEPT !.op = "createAccount", !.acct = id, !.amount = balance,
                      !.fails = fails,
                      !.toast = IF inserted THEN "Account created" ELSE "Failed to create account"]
  /\ ops' = ops + 1
  /\ faults' = faults + Cardinality(fails)
  /\ UNCHANGED <<detailVars, fxVars, raceVars, stepVars, transfers, expenses, nextExpenseId, tblAccounts, transferVars, expenseUiVars>>

\* AccountForm.onSubmit, edit branch (the edit dialog of AccountDetail): the
\* payload carries every field of the form, current_balance included, and no
\* history entry is written.
EditAccountForm(a, accountType, currency, status, balance, fails) ==
  /\ ops < MaxOps
  /\ accounts[a].exists
  /\ accounts' = IF "updateAccount" \in fails THEN accounts
                 ELSE [accounts EXCEPT ![a] =
                         [exists |-> TRUE, account_type |-> accountType, currency |-> currency,
                          current_balance |-> StoreNumeric(balance), status |-> status]]
  /\ last' = [LastNone EXCEPT !.op = "editAccountForm", !.acct = a, !.amount = balance,
                !.fails = fails, !.preBal = accounts[a].current_balance,
                !.preHist = Len(history[a]),
                !.toast = IF "updateAccount" \in fails THEN "Failed to update account"
                          ELSE "Account updated"]
  /\ ops' = ops + 1
  /\ faults' = faults + Cardinality(fails)
  /\ UNCHANGED <<detailVars, fxVars, raceVars, stepVars, history, transfers, expenses, nextAccountId, nextExpenseId, tblAccounts,
                 transferVars, expenseUiVars>>

\* the form opens with the fields of the account; the user changes one of them
FormEdits(a) ==
  LET row == accounts[a]
      base == [account_type |-> row.account_type, currency |-> row.currency,
               status |-> row.status, balance |-> row.current_balance]
  IN {[base EXCEPT !.account_type = t] : t \in AccountTypes}
       \cup {[base EXCEPT !.currency = c] : c \in Currencies}
       \cup {[base EXCEPT !.status = st] : st \in Statuses}
       \cup {[base EXCEPT !.balance = b] : b \in OpeningBalances}

\* AccountTable.handleEdit: name, institution, status, credit limit, notes
HandleEdit(a, status, fails) ==
  /\ ops < MaxOps
  /\ tblAccounts[a].present
  /\ accounts' = IF "updateAccount" \in fails \/ ~accounts[a].exists THEN accounts
                 ELSE [accounts EXCEPT ![a].status = status]
  /\ tblAccounts' = IF "updateAccount" \in fails THEN tblAccounts
                    ELSE [tblAccounts EXCEPT ![a].status = status]
  /\ last' = [LastNone EXCEPT !.op = "handleEdit", !.acct = a, !.fails = fails,
                !.toast = IF "updateAccount" \in fails THEN "Failed to update"
                          ELSE "Account updated"]
  /\ ops' = ops + 1
  /\ faults' = faults + Cardinality(fails)
  /\ UNCHANGED <<detailVars, fxVars, raceVars, stepVars, history, transfers, expenses, nextAccountId, nextExpenseId,
                 transferVars, expenseUiVars>>

\* AccountTable.handleDelete: the history of the account goes with it
\* (on delete cascade), transfer records lose the reference (on delete set null)
HandleDelete(a, fails) ==
  /\ ops < MaxOps
  /\ tblAccounts[a].present
  /\ LET failed == "deleteAccount" \in fails
     IN /\ accounts' = IF failed THEN accounts ELSE [accounts EXCEPT ![a] = NoAccount]
        /\ history' = IF failed THEN history ELSE [history EXCEPT ![a] = <<>>]
        /\ transfers' = IF failed THEN transfers
                        ELSE [i \in DOMAIN transfers |->
                                [transfers[i] EXCEPT
                                   !.from_account_id = IF @ = a THEN NoId ELSE @,
                                   !.to_account_id = IF @ = a THEN NoId ELSE @]]
        /\ tblAccounts' = IF failed THEN tblAccounts ELSE [tblAccounts EXCEPT ![a] = NoSnapshot]
        /\ last' = [LastNone EXCEPT !.op = "handleDelete", !.acct = a, !.fails = fails,
                      !.toast = IF failed THEN "Failed to delete account" ELSE "Account deleted"]
  /\ ops' = ops + 1
  /\ faults' = faults + Cardinality(fails)
  /\ UNCHANGED <<detailVars, fxVars, raceVars, stepVars, expenses, nextAccountId, nextExpenseId, transferVars, expenseUiVars>>

\* AccountTable.handleBalanceUpdate: the manual correction.  An update that
\* matches no row is not an error; the history insert of a deleted account is.
HandleBalanceUpdate(a, input, fails) ==
  /\ ops < MaxOps
  /\ tblAccounts[a].present
  /\ fails \subseteq (IF input.nan THEN {}
                       ELSE IF "update" \in fails THEN {"update"}
                       ELSE {"update", "history"})
  /\ LET balance == input.v
         updated == ~input.nan /\ "update" \notin fails
         logged == updated /\ "history" \notin fails /\ accounts[a].exists
     IN /\ accounts' = IF updated /\ accounts[a].exists
                         THEN [accounts EXCEPT ![a].current_balance = StoreNumeric(balance)]
                         ELSE accounts
        /\ history' = IF logged
                        THEN [history EXCEPT ![a] =
                                Append(@, [balance |-> StoreNumeric(balance), note |-> "Manual"])]
                        ELSE history
        /\ tblAccounts' = IF updated THEN [tblAccounts EXCEPT ![a].current_balance = balance]
                          ELSE tblAccounts
        /\ last' = [LastNone EXCEPT !.op = "handleBalanceUpdate", !.acct = a, !.amount = balance,
                      !.fails = fails, !.preBal = accounts[a].current_balance,
                      !.preHist = Len(history[a]),
                      !.toast = IF input.nan THEN "Enter a valid balance"
                                ELSE IF ~updated THEN "Failed to update balance"
                                ELSE IF ~logged THEN "Balance updated but failed to log history"
                                ELSE "Balance updated"]
  /\ ops' = ops + 1
  /\ faults' = faults + Cardinality(fails)
  /\ UNCHANGED <<detailVars, fxVars, raceVars, stepVars, transfers, expenses, nextAccountId, nextExpenseId, transferVars, expenseUiVars>>

\* ---------------------------------------------------------------- transfer dialog
\* The ids of a closed dialog are never read (openTransfer overwrites both):
\* the model keeps them at NoId while the dialog is closed.
\* openTransfer(prefillFromId): the header button passes nothing, the row
\* button passes the id of its row, whatever the status of that account
OpenTransfer(prefillFromId) ==
  /\ ops < MaxOps
  /\ ~transferOpen
  /\ IF prefillFromId = NoId THEN TRUE ELSE tblAccounts[prefillFromId].present
  /\ transferOpen' = TRUE
  /\ transferFromId' = prefillFromId
  /\ transferToId' = NoId
  /\ UNCHANGED <<detailVars, fxVars, raceVars, stepVars, storeVars, tblAccounts, expenseUiVars, last, ops, faults>>

\* the From select offers the active accounts and clears the To select
SelectFrom(a) ==
  /\ ops < MaxOps
  /\ transferOpen
  /\ tblAccounts[a].present /\ tblAccounts[a].status = "active"
  /\ transferFromId # a \/ transferToId # NoId
  /\ transferFromId' = a
  /\ transferToId' = NoId
  /\ UNCHANGED <<detailVars, fxVars, raceVars, stepVars, storeVars, tblAccounts, transferOpen, expenseUiVars, last, ops, faults>>

\* toAccountOptions: not the source, active, same currency as the source
ToAccountOptions ==
  IF transferFromId = NoId \/ ~tblAccounts[transferFromId].present THEN {}
  ELSE {a \in AccountIds : /\ tblAccounts[a].present
                           /\ a # transferFromId
                           /\ tblAccounts[a].status = "active"
                           /\ tblAccounts[a].currency = tblAccounts[transferFromId].currency}

SelectTo(a) ==
  /\ ops < MaxOps
  /\ transferOpen
  /\ a \in ToAccountOptions
  /\ transferToId # a
  /\ transferToId' = a
  /\ UNCHANGED <<detailVars, fxVars, raceVars, stepVars, storeVars, tblAccounts, transferOpen, transferFromId, expenseUiVars,
                 last, ops, faults>>

\* the validation without the currency guard
TransferRejectionNoCurrency(fromId, toId, input, accts) ==
  IF fromId = NoId \/ toId = NoId THEN "Select both accounts"
  ELSE IF fromId = toId THEN "Cannot transfer to the same account"
  ELSE IF input.nan \/ input.v <= 0 THEN "Enter a valid amount greater than 0"
  ELSE IF ~accts[fromId].present \/ ~accts[toId].present THEN "none"
  ELSE ""

\* the reason handleTransfer returns before its first write, "" when it goes on
TransferRejection(fromId, toId, input, accts) ==
  IF fromId = NoId \/ toId = NoId THEN "Select both accounts"
  ELSE IF fromId = toId THEN "Cannot transfer to the same account"
  ELSE IF input.nan \/ input.v <= 0 THEN "Enter a valid amount greater than 0"
  ELSE IF ~accts[fromId].present \/ ~accts[toId].present THEN "none"
  ELSE IF accts[fromId].currency # accts[toId].currency
    THEN "Cannot transfer between different currencies"
  ELSE ""

\* the store calls handleTransfer gets to make, given the ones that fail
TransferCalls(rejection, fails) ==
  IF rejection # "" THEN {}
  ELSE IF "fromUpdate" \in fails THEN {"fromUpdate"}
  ELSE IF "toUpdate" \in fails THEN {"fromUpdate", "toUpdate"}
  ELSE {"fromUpdate", "toUpdate", "transferHistory", "transferRecord"}

\* the two balance updates with a reversal of the source update when the
\* destination update fails
TransferAccountsRollback(accts, fromId, toId, newFromBalance, newToBalance, fromOk, toOk) ==
  IF toOk /\ accts[fromId].exists /\ accts[toId].exists
    THEN [accts EXCEPT ![fromId].current_balance = StoreNumeric(newFromBalance),
                       ![toId].current_balance = StoreNumeric(newToBalance)]
    ELSE accts

\* the two balance updates of handleTransfer: the source first; when the
\* destination update fails the source update stays
TransferAccounts(accts, fromId, toId, newFromBalance, newToBalance, fromOk, toOk) ==
  LET afterFrom == IF fromOk /\ accts[fromId].exists
                     THEN [accts EXCEPT ![fromId].current_balance = StoreNumeric(newFromBalance)]
                     ELSE accts
  IN IF toOk /\ accts[toId].exists
       THEN [afterFrom EXCEPT ![toId].current_balance = StoreNumeric(newToBalance)]
       ELSE afterFrom

\* AccountTable.handleTransfer.  The balances come from the rows the table
\* holds; nothing is rounded by the handler; the results of the history
\* insert and of the transfer insert are not looked at.
HandleTransfer(input, fails) ==
  /\ ops < MaxOps
  /\ transferOpen
  /\ fails \subseteq TransferCalls(TransferRejection(transferFromId, transferToId, input, tblAccounts),
                                   fails)
  /\ LET rejection == TransferRejection(transferFromId, transferToId, input, tblAccounts)
         from == tblAccounts[transferFromId]
         to == tblAccounts[transferToId]
         amount == input.v
         newFromBalance == from.current_balance - amount
         newToBalance == IF to.account_type = "credit_card"
                           THEN to.current_balance - amount
                           ELSE to.current_balance + amount
         fromOk == rejection = "" /\ "fromUpdate" \notin fails
         toOk == fromOk /\ "toUpdate" \notin fails
         bothExist == accounts[transferFromId].exists /\ accounts[transferToId].exists
         logged == toOk /\ "transferHistory" \notin fails /\ bothExist
         recorded == toOk /\ "transferRecord" \notin fails /\ bothExist
     IN /\ accounts' = IF rejection # "" THEN accounts
                       ELSE TransferAccounts(accounts, transferFromId, transferToId,
                                             newFromBalance, newToBalance, fromOk, toOk)
        /\ history' = IF logged
                        THEN [history EXCEPT
                                ![transferFromId] = Append(@, [balance |-> StoreNumeric(newFromBalance),
                                                               note |-> "Transfer"]),
                                ![transferToId] = Append(@, [balance |-> StoreNumeric(newToBalance),
                                                             note |-> "Transfer"])]
                        ELSE history
        /\ transfers' = IF recorded
                          THEN Append(transfers, [from_account_id |-> transferFromId,
                                                  to_account_id |-> transferToId,
                                                  amount |-> StoreNumeric(amount),
                                                  currency |-> from.currency])
                          ELSE transfers
        /\ tblAccounts' = IF toOk
                            THEN [tblAccounts EXCEPT
                                    ![transferFromId].current_balance = newFromBalance,
                                    ![transferToId].current_balance = newToBalance]
                            ELSE tblAccounts
        /\ transferOpen' = ~toOk
        /\ transferFromId' = IF toOk THEN NoId ELSE transferFromId
        /\ transferToId' = IF toOk THEN NoId ELSE transferToId
        /\ last' = [LastNone EXCEPT !.op = "handleTransfer", !.acct = transferFromId,
                      !.acct2 = transferToId, !.amount = IF input.nan THEN 0 ELSE amount,
                      !.fails = fails,
                      !.toast = IF rejection # "" THEN rejection
                                ELSE IF ~fromOk THEN "Failed to update source account"
                                ELSE IF ~toOk THEN "Failed to update target account"
                                ELSE "Transferred"]
  /\ ops' = ops + 1
  /\ faults' = faults + Cardinality(fails)
  /\ UNCHANGED <<detailVars, fxVars, raceVars, stepVars, expenses, nextAccountId, nextExpenseId, expenseUiVars>>

\* ---------------------------------------------------------------- the transfer, call by call
\* the store calls of handleTransfer in the order of the source text
TransferOrder == <<"fromUpdate", "toUpdate", "transferHistory", "transferRecord">>

\* the calls of a set, in the order of the source text
InTransferOrder(calls) == SelectSeq(TransferOrder, LAMBDA c : c \in calls)

Sent(calls) == [i \in 1..Len(InTransferOrder(calls)) |->
                  [ev |-> "sent", call |-> InTransferOrder(calls)[i]]]

\* the two inserts sent together once both balances are updated
TransferSendsAfterTogether(call, ok) ==
  IF call = "start" THEN {"fromUpdate"}
  ELSE IF call = "fromUpdate" THEN (IF ok THEN {"toUpdate"} ELSE {})
  ELSE IF call = "toUpdate" THEN (IF ok THEN {"transferHistory", "transferRecord"} ELSE {})
  ELSE {}

\* what handleTransfer sends when the call it awaits has returned: each store
\* call is awaited before the next statement; an error of a balance update
\* ends the handler, the results of the two inserts are not looked at
TransferSendsAfter(call, ok) ==
  IF call = "start" THEN {"fromUpdate"}
  ELSE IF call = "fromUpdate" THEN (IF ok THEN {"toUpdate"} ELSE {})
  ELSE IF call = "toUpdate" THEN (IF ok THEN {"transferHistory"} ELSE {})
  ELSE IF call = "transferHistory" THEN {"transferRecord"}
  ELSE {}

\* handleTransfer up to its first await: validation, the two rows of the
\* table, the new balances, setTransferring(true), the source update sent.
\* The Transfer button is disabled while transferring.
BeginTransfer(input) ==
  /\ ops < MaxOps
  /\ transferOpen
  /\ ~xfer.running
  /\ TransferRejection(transferFromId, transferToId, input, tblAccounts) = ""
  /\ LET from == tblAccounts[transferFromId]
         to == tblAccounts[transferToId]
         amount == input.v
         first == TransferSendsAfter("start", TRUE)
     IN xfer' = [running |-> TRUE, from |-> transferFromId, to |-> transferToId,
                 amount |-> amount,
                 newFromBalance |-> from.current_balance - amount,
                 newToBalance |-> IF to.account_type = "credit_card"
                                    THEN to.current_balance - amount
                                    ELSE to.current_balance + amount,
                 currency |-> from.currency,
                 inFlight |-> first, log |-> Sent(first), toast |-> "none"]
  /\ ops' = ops + 1
  /\ UNCHANGED <<detailVars, fxVars, raceVars, deleteVars, storeVars, tblAccounts, transferVars,
                 expenseUiVars, last, faults>>

\* a store call of the transfer returns and the handler runs on to its next
\* await, or to its end
TransferCallReturns(call, ok) ==
  /\ xfer.running
  /\ call \in xfer.inFlight
  /\ LET bothExist == accounts[xfer.from].exists /\ accounts[xfer.to].exists
         sends == TransferSendsAfter(call, ok)
         inFlight == (xfer.inFlight \ {call}) \cup sends
         finished == inFlight = {}
         failedUpdate == call \in {"fromUpdate", "toUpdate"} /\ ~ok
         succeeded == finished /\ ~failedUpdate
     IN /\ accounts' =
             IF ok /\ call = "fromUpdate" /\ accounts[xfer.from].exists
               THEN [accounts EXCEPT ![xfer.from].current_balance =
                       StoreNumeric(xfer.newFromBalance)]
             ELSE IF ok /\ call = "toUpdate" /\ accounts[xfer.to].exists
               THEN [accounts EXCEPT ![xfer.to].current_balance =
                       StoreNumeric(xfer.newToBalance)]
             ELSE accounts
        /\ history' =
             IF ok /\ call = "transferHistory" /\ bothExist
               THEN [history EXCEPT
                       ![xfer.from] = Append(@, [balance |-> StoreNumeric(xfer.newFromBalance),
                                                 note |-> "Transfer"]),
                       ![xfer.to] = Append(@, [balance |-> StoreNumeric(xfer.newToBalance),
                                               note |-> "Transfer"])]
             ELSE history
        /\ transfers' =
             IF ok /\ call = "transferRecord" /\ bothExist
               THEN Append(transfers, [from_account_id |-> xfer.from,
                                       to_account_id |-> xfer.to,
                                       amount |-> StoreNumeric(xfer.amount),
                                       currency |-> xfer.currency])
             ELSE transfers
        /\ tblAccounts' = IF succeeded
                            THEN [tblAccounts EXCEPT
                                    ![xfer.from].current_balance = xfer.newFromBalance,
                                    ![xfer.to].current_balance = xfer.newToBalance]
                            ELSE tblAccounts
        /\ transferOpen' = IF succeeded THEN FALSE ELSE transferOpen
        /\ transferFromId' = IF succeeded THEN NoId ELSE transferFromId
        /\ transferToId' = IF succeeded THEN NoId ELSE transferToId
        /\ xfer' = [xfer EXCEPT
                      !.running = ~finished,
                      !.inFlight = inFlight,
                      !.log = @ \o <<[ev |-> "returned", call |-> call]>> \o Sent(sends),
                      !.toast = IF ~finished THEN "none"
                                ELSE IF ~ok /\ call = "fromUpdate"
                                  THEN "Failed to update source account"
                                ELSE IF ~ok /\ call = "toUpdate"
                                  THEN "Failed to update target account"
                                ELSE "Transferred"]
  /\ faults' = faults + (IF ok THEN 0 ELSE 1)
  /\ UNCHANGED <<detailVars, fxVars, raceVars, deleteVars, expenses, nextAccountId, nextExpenseId,
                 expenseUiVars, last, ops>>

\* Cancel, or closing the dialog
CloseTransfer ==
  /\ ops < MaxOps
  /\ transferOpen
  /\ transferOpen' = FALSE
  /\ transferFromId' = NoId
  /\ transferToId' = NoId
  /\ UNCHANGED <<detailVars, fxVars, raceVars, stepVars, storeVars, tblAccounts, expenseUiVars, last, ops, faults>>

\* ---------------------------------------------------------------- expenses
\* NewExpenseDialog, useEffect on open: the active accounts of the store
OpenNewExpenseDialog ==
  /\ ops < MaxOps
  /\ formAccounts' = [a \in AccountIds |-> ActiveOption(accounts[a])]
  /\ formAccounts' # formAccounts
  /\ UNCHANGED <<detailVars, fxVars, raceVars, stepVars, storeVars, tblAccounts, transferVars, expAccounts, expLocal, editExpense,
                 last, ops, faults>>

\* ExpensesPage: the table is mounted with the expenses and the active accounts
LoadExpensesPage ==
  /\ ops < MaxOps
  /\ expAccounts' = [a \in AccountIds |-> ActiveOption(accounts[a])]
  /\ expLocal' = expenses
  /\ editExpense' = NoEdit
  /\ <<expAccounts', expLocal', editExpense'>> # <<expAccounts, expLocal, editExpense>>
  /\ UNCHANGED <<detailVars, fxVars, raceVars, stepVars, storeVars, tblAccounts, transferVars, formAccounts, last, ops, faults>>

\* useRealtime callbacks of ExpenseTable
RealtimeExpense(e) ==
  /\ ops < MaxOps
  /\ expLocal[e] # expenses[e]
  /\ expLocal' = [expLocal EXCEPT ![e] = expenses[e]]
  /\ UNCHANGED <<detailVars, fxVars, raceVars, stepVars, storeVars, tblAccounts, transferVars, formAccounts, expAccounts, editExpense,
                 last, ops, faults>>

\* the account select of the form offers the accounts of the chosen currency
FormAccountChoices(currency) ==
  {NoId} \cup {a \in AccountIds : formAccounts[a].present /\ formAccounts[a].currency = currency}

\* the store calls an expense handler gets to make: its own write, then the
\* read of the posting, then the update and the insert together
PostingCalls(write, linked, fails) ==
  IF write \in fails \/ ~linked THEN {write}
  ELSE IF "read" \in fails THEN {write, "read"}
  ELSE {write, "read", "update", "history"}

\* ExpenseForm.onSubmit.  The schema asks for amount >= 0.01.  The column type
\* of expenses.amount is not part of the sources: the row keeps the amount as
\* sent or rounded to 2 decimals.
SubmitExpense(amount, stored, currency, accountId, fails) ==
  /\ ops < MaxOps
  /\ nextExpenseId \in ExpenseIds
  /\ amount >= 10
  /\ stored \in {amount, StoreNumeric(amount)}
  /\ accountId \in FormAccountChoices(currency)
  /\ fails \subseteq PostingCalls("insertExpense", accountId # NoId, fails)
  /\ LET id == nextExpenseId
         inserted == "insertExpense" \notin fails
         post == inserted /\ accountId # NoId
         acct == formAccounts[accountId]
         r == IF post
                THEN UpdateAccountBalance(accounts, history, accountId, amount,
                                          acct.account_type, "add", "Expense", fails)
                ELSE [accounts |-> accounts, history |-> history]
     IN /\ expenses' = IF inserted
                         THEN [expenses EXCEPT ![id] = [exists |-> TRUE, amount |-> stored,
                                                        currency |-> currency,
                                                        account_id |-> accountId]]
                         ELSE expenses
        /\ nextExpenseId' = IF inserted THEN id + 1 ELSE id
        /\ accounts' = r.accounts
        /\ history' = r.history
        /\ last' = [LastNone EXCEPT !.op = "submitExpense", !.acct = accountId, !.exp = id,
                      !.amount = amount, !.fails = fails,
                      !.accountType = IF post THEN acct.account_type ELSE "bank_account",
                      !.operation = "add",
                      !.posted = (post /\ accounts[accountId].exists /\ "read" \notin fails),
                      !.preBal = IF accountId # NoId THEN accounts[accountId].current_balance ELSE 0,
                      !.preHist = IF accountId # NoId THEN Len(history[accountId]) ELSE 0,
                      !.toast = IF inserted THEN "Expense logged" ELSE "Failed to create expense"]
  /\ ops' = ops + 1
  /\ faults' = faults + Cardinality(fails)
  /\ UNCHANGED <<detailVars, fxVars, raceVars, stepVars, transfers, nextAccountId, tblAccounts, transferVars, expenseUiVars>>

\* ExpenseTable.handleDelete, for the row whose delete was confirmed.  A
\* delete that matches no row is not an error.
HandleDeleteExpense(e, fails) ==
  /\ ops < MaxOps
  /\ ~editExpense.open
  /\ expLocal[e].exists
  /\ fails \subseteq PostingCalls("deleteExpense",
                                  IF expLocal[e].account_id = NoId THEN FALSE
                                  ELSE expAccounts[expLocal[e].account_id].present, fails)
  /\ LET expToDelete == expLocal[e]
         deleted == "deleteExpense" \notin fails
         accountId == expToDelete.account_id
         post == deleted /\ accountId # NoId /\ expAccounts[accountId].present
         acct == expAccounts[accountId]
         r == IF post
                THEN UpdateAccountBalance(accounts, history, accountId, expToDelete.amount,
                                          acct.account_type, "remove", "Expense deleted", fails)
                ELSE [accounts |-> accounts, history |-> history]
     IN /\ expenses' = IF deleted THEN [expenses EXCEPT ![e] = NoExpense] ELSE expenses
        /\ accounts' = r.accounts
        /\ history' = r.history
        /\ expLocal' = IF deleted THEN [expLocal EXCEPT ![e] = NoExpense] ELSE expLocal
        /\ last' = [LastNone EXCEPT !.op = "handleDeleteExpense", !.acct = accountId, !.exp = e,
                      !.amount = expToDelete.amount, !.fails = fails,
                      !.accountType = IF post THEN acct.account_type ELSE "bank_account",
                      !.operation = "remove",
                      !.posted = (post /\ accounts[accountId].exists /\ "read" \notin fails),
                      !.preBal = IF accountId # NoId THEN accounts[accountId].current_balance ELSE 0,
                      !.preHist = IF accountId # NoId THEN Len(history[accountId]) ELSE 0,
                      !.toast = IF deleted THEN "Expense deleted" ELSE "Failed to delete expense"]
  /\ ops' = ops + 1
  /\ faults' = faults + Cardinality(fails)
  /\ UNCHANGED <<detailVars, fxVars, raceVars, stepVars, transfers, nextAccountId, nextExpenseId, tblAccounts, transferVars,
                 formAccounts, expAccounts, editExpense>>

\* ---------------------------------------------------------------- the expense delete, click by click
\* the trash button of a row: setDeleteId(exp.id) opens the confirmation
OpenDelete(e) ==
  /\ deleteId = NoId
  /\ expLocal[e].exists
  /\ deleteId' = e
  /\ UNCHANGED <<detailVars, ledgerVars, fxVars, raceVars, xfer, deleteCalls, deletePostings>>

\* Cancel, or closing the confirmation
CancelDelete ==
  /\ deleteId # NoId
  /\ deleteId' = NoId
  /\ UNCHANGED <<detailVars, ledgerVars, fxVars, raceVars, xfer, deleteCalls, deletePostings>>

\* the Delete button is there while the confirmation is open; nothing disables
\* it while an invocation is under way
DeleteButtonEnabled == deleteId # NoId

\* handleDelete up to its first await: the row is looked up in the table
\* and the delete is sent
ClickDelete(i) ==
  /\ DeleteButtonEnabled
  /\ deleteCalls[i].pc = "idle"
  /\ deleteCalls' = [deleteCalls EXCEPT ![i] =
                       [pc |-> "deleting", id |-> deleteId, expToDelete |-> expLocal[deleteId]]]
  /\ UNCHANGED <<detailVars, ledgerVars, fxVars, raceVars, xfer, deleteId, deletePostings>>

\* the store takes the delete, or refuses it.  A delete that matches no row
\* is not an error.
DeleteApplied(i, ok) ==
  /\ deleteCalls[i].pc = "deleting"
  /\ expenses' = IF ok THEN [expenses EXCEPT ![deleteCalls[i].id] = NoExpense] ELSE expenses
  /\ deleteCalls' = [deleteCalls EXCEPT ![i].pc = IF ok THEN "deleted" ELSE "refused"]
  /\ faults' = faults + (IF ok THEN 0 ELSE 1)
  /\ UNCHANGED <<detailVars, fxVars, raceVars, xfer, deleteId, deletePostings, accounts, history, transfers,
                 nextAccountId, nextExpenseId, tblAccounts, transferVars, expenseUiVars,
                 last, ops>>

\* the answer of the delete reaches handleDelete, which runs to its end: the
\* posting for the row it found when invoked, the row taken out of the
\* table, the confirmation closed
DeleteReturns(i, fails) ==
  /\ deleteCalls[i].pc \in {"deleted", "refused"}
  /\ faults + Cardinality(fails) <= MaxFaults
  /\ LET e == deleteCalls[i].id
         expToDelete == deleteCalls[i].expToDelete
         accountId == expToDelete.account_id
         linked == expToDelete.exists /\ accountId # NoId /\ expAccounts[accountId].present
         deleted == deleteCalls[i].pc = "deleted"
         post == deleted /\ linked
         acct == expAccounts[accountId]
         r == IF post
                THEN UpdateAccountBalance(accounts, history, accountId, expToDelete.amount,
                                          acct.account_type, "remove", "Expense deleted", fails)
                ELSE [accounts |-> accounts, history |-> history]
     IN /\ fails \subseteq (IF ~post THEN {}
                             ELSE IF "read" \in fails THEN {"read"}
                             ELSE {"read", "update", "history"})
        /\ accounts' = r.accounts
        /\ history' = r.history
        /\ expLocal' = IF deleted THEN [expLocal EXCEPT ![e] = NoExpense] ELSE expLocal
        /\ deletePostings' = IF post THEN [deletePostings EXCEPT ![e] = @ + 1]
                             ELSE deletePostings
        /\ deleteCalls' = [deleteCalls EXCEPT ![i].pc = "done"]
  /\ deleteId' = NoId
  /\ faults' = faults + Cardinality(fails)
  /\ UNCHANGED <<detailVars, fxVars, raceVars, xfer, expenses, transfers, nextAccountId, nextExpenseId,
                 tblAccounts, transferVars, formAccounts, expAccounts, editExpense, last, ops>>

\* openEdit(exp): the edit dialog keeps the row as the table holds it
OpenEdit(e) ==
  /\ ops < MaxOps
  /\ ~editExpense.open
  /\ expLocal[e].exists
  /\ editExpense' = [open |-> TRUE, id |-> e, amount |-> expLocal[e].amount,
                     account_id |-> expLocal[e].account_id]
  /\ UNCHANGED <<detailVars, fxVars, raceVars, stepVars, storeVars, tblAccounts, transferVars, formAccounts, expAccounts, expLocal,
                 last, ops, faults>>

\* Cancel, or closing the edit dialog
CloseEdit ==
  /\ ops < MaxOps
  /\ editExpense.open
  /\ editExpense' = NoEdit
  /\ UNCHANGED <<detailVars, fxVars, raceVars, stepVars, storeVars, tblAccounts, transferVars, formAccounts, expAccounts, expLocal,
                 last, ops, faults>>

\* the guard of the posting of an edit, for every delta: the guard dropped
EditPostsAlways(delta) == TRUE

\* handleEdit posts only when the rounded difference is not zero
EditPosts(delta) == delta # 0

\* Math.round((amount - editExpense.amount) * 100) / 100
EditDelta(amount, oldAmount) == Round2(amount - oldAmount)

\* ExpenseTable.handleEdit.  An update that matches no row is not an error.
\* The row of the store gets the amount rounded to cents, the row of the table
\* the amount as typed.
HandleEditExpense(input, currency, fails) ==
  /\ ops < MaxOps
  /\ editExpense.open
  /\ LET e == editExpense.id
         amount == input.v
         valid == ~input.nan /\ amount > 0
         accountId == editExpense.account_id
         delta == EditDelta(amount, editExpense.amount)
         wanted == valid /\ accountId # NoId /\ EditPosts(delta)
                     /\ expAccounts[accountId].present
         updated == valid /\ "updateExpense" \notin fails
         post == updated /\ wanted
         acct == expAccounts[accountId]
         operation == IF delta > 0 THEN "add" ELSE "remove"
         absDelta == IF delta >= 0 THEN delta ELSE 0 - delta
         r == IF post
                THEN UpdateAccountBalance(accounts, history, accountId, absDelta,
                                          acct.account_type, operation, "Expense edited", fails)
                ELSE [accounts |-> accounts, history |-> history]
     IN /\ fails \subseteq (IF valid THEN PostingCalls("updateExpense", wanted, fails) ELSE {})
        /\ expenses' = IF updated /\ expenses[e].exists
                         THEN [expenses EXCEPT ![e].amount = Round2(amount),
                                               ![e].currency = currency]
                         ELSE expenses
        /\ accounts' = r.accounts
        /\ history' = r.history
        /\ expLocal' = IF updated /\ expLocal[e].exists
                         THEN [expLocal EXCEPT ![e].amount = amount, ![e].currency = currency]
                         ELSE expLocal
        /\ editExpense' = IF updated THEN NoEdit ELSE editExpense
        /\ last' = [LastNone EXCEPT !.op = "handleEditExpense", !.acct = accountId, !.exp = e,
                      !.amount = IF input.nan THEN 0 ELSE amount, !.fails = fails,
                      !.old = editExpense.amount,
                      !.accountType = IF post THEN acct.account_type ELSE "bank_account",
                      !.operation = IF post THEN operation ELSE "add",
                      !.posted = (post /\ accounts[accountId].exists /\ "read" \notin fails),
                      !.preBal = IF accountId # NoId THEN accounts[accountId].current_balance ELSE 0,
                      !.preHist = IF accountId # NoId THEN Len(history[accountId]) ELSE 0,
                      !.toast = IF ~valid THEN "Enter a valid amount"
                                ELSE IF updated THEN "Expense updated" ELSE "Failed to update"]
  /\ ops' = ops + 1
  /\ faults' = faults + Cardinality(fails)
  /\ UNCHANGED <<detailVars, fxVars, raceVars, stepVars, transfers, nextAccountId, nextExpenseId, tblAccounts, transferVars,
                 formAccounts, expAccounts>>

\* ---------------------------------------------------------------- FX rates
\* rates[k]; 0 stands for a key the table does not have
Lookup(rates, k) ==
  IF \E i \in 1..Len(rates) : rates[i].k = k
    THEN rates[CHOOSE i \in 1..Len(rates) : rates[i].k = k].v
    ELSE 0

\* rates[k] = v: an existing key keeps its place, a new key goes last
SetKey(rates, k, v) ==
  IF \E i \in 1..Len(rates) : rates[i].k = k
    THEN [i \in 1..Len(rates) |-> IF rates[i].k = k THEN [k |-> k, v |-> v] ELSE rates[i]]
    ELSE Append(rates, [k |-> k, v |-> v])

\* Object.keys(rates).find((k) => rates[k] === 1)
FirstUnitKey(rates) ==
  IF \E i \in 1..Len(rates) : rates[i].v = RateScale
    THEN rates[CHOOSE i \in 1..Len(rates) :
                 /\ rates[i].v = RateScale
                 /\ \A j \in 1..(i - 1) : rates[j].v # RateScale].k
    ELSE "undefined"

\* a currency without a rate converted to nothing
ConvertAmountUnknownZero(amount, fromCurrency, rates) ==
  IF fromCurrency = "" \/ fromCurrency = FirstUnitKey(rates) THEN amount
  ELSE LET rate == Lookup(rates, fromCurrency)
       IN IF rate = 0 THEN 0 ELSE (amount * RateScale) \div rate

\* convertAmount
ConvertAmount(amount, fromCurrency, rates) ==
  IF fromCurrency = "" \/ fromCurrency = FirstUnitKey(rates) THEN amount
  ELSE LET rate == Lookup(rates, fromCurrency)
       IN IF rate = 0 THEN amount ELSE (amount * RateScale) \div rate

\* the currency the provider quotes for a base (the answer leaves the base out)
Quoted(base) == IF base = "PHP" THEN "USD" ELSE "PHP"

\* data.rates of a successful answer: a rate for the other currency, or no
\* rates at all
ProviderTables(base) ==
  {EmptyTable} \cup {<<[k |-> Quoted(base), v |-> v]>> : v \in RateValues}

\* what a request to the provider ends in: an answer with rates, an answer
\* that is not ok, or a transport error (fetch rejects)
FetchOutcomes(base) ==
  {[kind |-> "ok", table |-> t] : t \in ProviderTables(base)}
    \cup {[kind |-> "notOk", table |-> EmptyTable], [kind |-> "error", table |-> EmptyTable]}

\* the cache test of getExchangeRates
CacheHit(base, at) ==
  cache.present /\ cache.base = base /\ at - cache.fetchedAt < CACHE_TTL

\* time passes
Tick ==
  /\ now < MaxTime
  /\ now' = now + 1
  /\ UNCHANGED <<detailVars, ledgerVars, raceVars, stepVars, cache, fxCalls, fetches, lastFx, converted,
                 perBase>>

\* getExchangeRates(base) up to its await: a fresh entry for the base is
\* returned at once, otherwise the request goes out
BeginGetExchangeRates(c, base) ==
  /\ ~fxCalls[c].fetching
  /\ IF CacheHit(base, now)
       THEN /\ lastFx' = [op |-> "hit", base |-> base, at |-> now,
                          outcome |-> "none", rates |-> cache.rates, fetched |-> EmptyTable]
            /\ UNCHANGED <<fxCalls, fetches>>
       ELSE /\ fetches < MaxFetches
            /\ fxCalls' = [fxCalls EXCEPT ![c] = [fetching |-> TRUE, base |-> base, at |-> now]]
            /\ fetches' = fetches + 1
            /\ UNCHANGED lastFx
  /\ UNCHANGED <<detailVars, ledgerVars, raceVars, stepVars, cache, now, converted, perBase>>

\* the entries of new written over the entries of old, key by key
RECURSIVE MergeTables(_, _)
MergeTables(old, new) ==
  IF new = EmptyTable THEN old
  ELSE MergeTables(SetKey(old, new[1].k, new[1].v), Tail(new))

\* the rates of the answer written into the table the cache already holds
\* (Object.assign(cache.rates, rates)) instead of taking its place
EndGetExchangeRatesMerging(c, outcome) ==
  /\ fxCalls[c].fetching
  /\ LET base == fxCalls[c].base
         rates == SetKey(MergeTables(cache.rates, outcome.table), base, RateScale)
     IN IF outcome.kind = "error"
          THEN /\ lastFx' = [op |-> "threw", base |-> base, at |-> fxCalls[c].at,
                             outcome |-> outcome.kind, rates |-> EmptyTable,
                             fetched |-> EmptyTable]
               /\ UNCHANGED cache
          ELSE /\ cache' = [present |-> TRUE, base |-> base, rates |-> rates,
                            fetchedAt |-> fxCalls[c].at]
               /\ lastFx' = [op |-> "refresh", base |-> base, at |-> fxCalls[c].at,
                             outcome |-> outcome.kind, rates |-> rates,
                             fetched |-> outcome.table]
  /\ fxCalls' = [fxCalls EXCEPT ![c] = NoCall]
  /\ UNCHANGED <<detailVars, ledgerVars, raceVars, stepVars, now, fetches, converted, perBase>>

\* fetchRates returns or rejects and getExchangeRates goes on: an answer that
\* is not ok counts as no rates, a transport error is caught nowhere
EndGetExchangeRates(c, outcome) ==
  /\ fxCalls[c].fetching
  /\ LET base == fxCalls[c].base
         rates == SetKey(outcome.table, base, RateScale)
     IN IF outcome.kind = "error"
          THEN /\ lastFx' = [op |-> "threw", base |-> base, at |-> fxCalls[c].at,
                             outcome |-> outcome.kind, rates |-> EmptyTable,
                             fetched |-> EmptyTable]
               /\ UNCHANGED cache
          ELSE /\ cache' = [present |-> TRUE, base |-> base, rates |-> rates,
                            fetchedAt |-> fxCalls[c].at]
               /\ lastFx' = [op |-> "refresh", base |-> base, at |-> fxCalls[c].at,
                             outcome |-> outcome.kind, rates |-> rates,
                             fetched |-> outcome.table]
  /\ fxCalls' = [fxCalls EXCEPT ![c] = NoCall]
  /\ UNCHANGED <<detailVars, ledgerVars, raceVars, stepVars, now, fetches, converted, perBase>>

\* getExchangeRates(base) from call to return, no other call under way
GetExchangeRates(base, outcome) ==
  /\ \A c \in CallerIds : ~fxCalls[c].fetching
  /\ IF CacheHit(base, now)
       THEN /\ lastFx' = [op |-> "hit", base |-> base, at |-> now,
                          outcome |-> "none", rates |-> cache.rates, fetched |-> EmptyTable]
            /\ UNCHANGED <<cache, fetches, perBase>>
       ELSE /\ fetches < MaxFetches
            /\ fetches' = fetches + 1
            /\ outcome \in FetchOutcomes(base)
            /\ LET rates == SetKey(outcome.table, base, RateScale)
               IN IF outcome.kind = "error"
                    THEN /\ lastFx' = [op |-> "threw", base |-> base, at |-> now,
                                       outcome |-> outcome.kind, rates |-> EmptyTable,
                                       fetched |-> EmptyTable]
                         /\ UNCHANGED <<cache, perBase>>
                    ELSE /\ cache' = [present |-> TRUE, base |-> base, rates |-> rates,
                                      fetchedAt |-> now]
                         /\ perBase' = [perBase EXCEPT ![base] =
                                          [present |-> TRUE, rates |-> rates, fetchedAt |-> now,
                                           outcome |-> outcome.kind]]
                         /\ lastFx' = [op |-> "refresh", base |-> base, at |-> now,
                                       outcome |-> outcome.kind, rates |-> rates,
                                       fetched |-> outcome.table]
  /\ UNCHANGED <<detailVars, ledgerVars, raceVars, stepVars, now, fxCalls, converted>>

\* the tables getExchangeRates returns: the rates of an answer, or none, with
\* the entry of the base set to 1
ProducedTables ==
  UNION {{SetKey(t, base, RateScale) : t \in ProviderTables(base)} : base \in FxBases}

\* convertAmount(amount, fromCurrency, rates)
Convert(amount, fromCurrency, rates) ==
  /\ converted' = [done |-> TRUE, amount |-> amount, from |-> fromCurrency, rates |-> rates,
                   result |-> ConvertAmount(amount, fromCurrency, rates)]
  /\ UNCHANGED <<detailVars, ledgerVars, raceVars, stepVars, cache, now, fxCalls, fetches, lastFx, perBase>>

\* ---------------------------------------------------------------- account detail page
\* The detail page reads the columns id and balance_date of the history rows;
\* the rows of the runs of this page carry them.  A balance_date is a
\* "YYYY-MM-DD" string, which localeCompare orders as the day number does.
\* id is the position of the row in the order the rows were inserted.

\* .limit(100)
HistoryLimit == 100

\* .order("balance_date", { ascending: false }).limit(100): the rows newest
\* date first; the query gives no order to rows of the same date
TieOrders(rows) == Permutations(1..Len(rows))

LoadOrder(rows, p) ==
  /\ p \in TieOrders(rows)
  /\ \A i, j \in 1..Len(rows) : i < j => rows[p[i]].balance_date >= rows[p[j]].balance_date

Loaded(rows, p) ==
  LET kept == IF Len(rows) < HistoryLimit THEN Len(rows) ELSE HistoryLimit
  IN [i \in 1..kept |-> rows[p[i]]]

\* Array.prototype.sort is stable: an entry goes behind the entries already
\* placed that do not compare greater
InsertByDate(sorted, entry) ==
  LET k == Cardinality({i \in 1..Len(sorted) : sorted[i].balance_date <= entry.balance_date})
  IN SubSeq(sorted, 1, k) \o <<entry>> \o SubSeq(sorted, k + 1, Len(sorted))

RECURSIVE SortByDate(_)
SortByDate(list) ==
  IF list = << >> THEN << >>
  ELSE InsertByDate(SortByDate(SubSeq(list, 1, Len(list) - 1)), list[Len(list)])

\* { date: formatDate(entry.balance_date), balance: Number(entry.balance) }
ChartPoint(entry) == [date |-> entry.balance_date, balance |-> entry.balance]

\* history.sort(...) on the state array itself
ChartDataInPlace(list) ==
  LET sorted == SortByDate(list)
  IN [history |-> sorted, sorted |-> sorted,
      chartData |-> [i \in 1..Len(sorted) |-> ChartPoint(sorted[i])]]

\* chartData: the copy [...history] is sorted, the copy is mapped; the record
\* holds the list as the build leaves it, the sorted copy and the series
ChartData(list) ==
  LET sorted == SortByDate(list)
  IN [history |-> list, sorted |-> sorted,
      chartData |-> [i \in 1..Len(sorted) |-> ChartPoint(sorted[i])]]

\* the render of AccountDetail that follows a change of its state
Rendered(list, again) ==
  LET b == ChartData(list)
  IN [built |-> TRUE, input |-> list, history |-> b.history, sorted |-> b.sorted,
      chartData |-> b.chartData, again |-> again,
      previous |-> IF again THEN chart.chartData ELSE << >>]

\* AccountDetailPage: the account and its history are loaded and the
\* component renders; an account that is not found shows no detail page
LoadDetailPage(a, p) ==
  /\ LoadOrder(history[a], p)
  /\ IF accounts[a].exists
       THEN /\ detailAccount' = [open |-> TRUE, id |-> a,
                                 current_balance |-> accounts[a].current_balance]
            /\ chart' = Rendered(Loaded(history[a], p), FALSE)
            /\ detailHistory' = chart'.history
       ELSE /\ detailAccount' = NoDetail
            /\ detailHistory' = << >>
            /\ chart' = NoChart
  /\ UNCHANGED <<fxVars, raceVars, stepVars, ledgerVars, today>>

\* a render with the state as it is (a dialog opened or closed, a field typed)
Rerender ==
  /\ detailAccount.open
  /\ chart' = Rendered(detailHistory, TRUE)
  /\ detailHistory' = chart'.history
  /\ UNCHANGED <<fxVars, raceVars, stepVars, ledgerVars, today, detailAccount>>

\* AccountDetail.handleBalanceUpdate: the manual correction made on the
\* detail page.  The entry the store returns is put in front of the list.
DetailBalanceUpdate(input, fails) ==
  /\ ops < MaxOps
  /\ detailAccount.open
  /\ Len(history[detailAccount.id]) < MaxEntries
  /\ fails \subseteq (IF input.nan THEN {}
                       ELSE IF "update" \in fails THEN {"update"}
                       ELSE {"update", "history"})
  /\ LET a == detailAccount.id
         balance == input.v
         updated == ~input.nan /\ "update" \notin fails
         logged == updated /\ "history" \notin fails /\ accounts[a].exists
         newEntry == [id |-> Len(history[a]) + 1, balance_date |-> today,
                      balance |-> StoreNumeric(balance), note |-> "Manual"]
     IN /\ accounts' = IF updated /\ accounts[a].exists
                         THEN [accounts EXCEPT ![a].current_balance = StoreNumeric(balance)]
                         ELSE accounts
        /\ history' = IF logged THEN [history EXCEPT ![a] = Append(@, newEntry)] ELSE history
        /\ detailAccount' = IF updated THEN [detailAccount EXCEPT !.current_balance = balance]
                            ELSE detailAccount
        /\ chart' = IF input.nan THEN chart
                    ELSE Rendered(IF logged THEN <<newEntry>> \o detailHistory ELSE detailHistory,
                                  FALSE)
        /\ detailHistory' = IF input.nan THEN detailHistory ELSE chart'.history
        /\ last' = [LastNone EXCEPT !.op = "detailBalanceUpdate", !.acct = a, !.amount = balance,
                      !.fails = fails, !.preBal = accounts[a].current_balance,
                      !.preHist = Len(history[a]),
                      !.toast = IF input.nan THEN "Enter a valid balance"
                                ELSE IF ~updated THEN "Failed to update balance"
                                ELSE IF ~logged THEN "Balance updated but history failed"
                                ELSE "Balance updated"]
  /\ ops' = ops + 1
  /\ faults' = faults + Cardinality(fails)
  /\ UNCHANGED <<fxVars, raceVars, stepVars, transfers, expenses, nextAccountId, nextExpenseId,
                 tblAccounts, transferVars, expenseUiVars, today>>

\* midnight passes (UTC)
NextDay ==
  /\ today < MaxDay
  /\ today' = today + 1
  /\ UNCHANGED <<fxVars, raceVars, stepVars, ledgerVars, detailAccount, detailHistory, chart>>

\* ---------------------------------------------------------------- specifications
\* the accounts pages with the two accounts of Init: account handlers and the
\* transfer dialog
Next ==
  \/ LoadAccountsPage
  \/ \E a \in AccountIds : RealtimeAccount(a)
  \/ \E fails \in FailSets({"updateAccount"}) : \E a \in AccountIds : \E f \in FormEdits(a) :
       EditAccountForm(a, f.account_type, f.currency, f.status, f.balance, fails)
  \/ \E fails \in FailSets({"updateAccount"}) : \E a \in AccountIds, st \in Statuses :
       HandleEdit(a, st, fails)
  \/ \E fails \in FailSets({"deleteAccount"}) : \E a \in AccountIds : HandleDelete(a, fails)
  \/ \E fails \in FailSets({"update", "history"}) : \E a \in AccountIds, input \in BalanceInputs :
       HandleBalanceUpdate(a, input, fails)
  \/ \E a \in AccountIds \cup {NoId} : OpenTransfer(a)
  \/ \E a \in AccountIds : SelectFrom(a)
  \/ \E a \in AccountIds : SelectTo(a)
  \/ \E fails \in FailSets({"fromUpdate", "toUpdate", "transferHistory", "transferRecord"}) :
       \E input \in TransferInputs :
         HandleTransfer(input, fails)
  \/ CloseTransfer

Spec == Init /\ [][Next]_vars

\* the life of the accounts from an empty store: creation, edits, manual
\* corrections, deletion
InitEmpty ==
  /\ accounts = [a \in AccountIds |-> NoAccount]
  /\ history = [a \in AccountIds |-> <<>>]
  /\ transfers = <<>>
  /\ expenses = [e \in ExpenseIds |-> NoExpense]
  /\ nextAccountId = 1
  /\ nextExpenseId = 1
  /\ tblAccounts = [a \in AccountIds |-> NoSnapshot]
  /\ transferOpen = FALSE
  /\ transferFromId = NoId
  /\ transferToId = NoId
  /\ formAccounts = [a \in AccountIds |-> NoOption]
  /\ expAccounts = [a \in AccountIds |-> NoOption]
  /\ expLocal = [e \in ExpenseIds |-> NoExpense]
  /\ editExpense = NoEdit
  /\ last = LastNone
  /\ ops = 0
  /\ faults = 0
  /\ FxIdle
  /\ RaceIdle
  /\ StepIdle
  /\ DetailClosed

NextAccounts ==
  \/ LoadAccountsPage
  \/ \E a \in AccountIds : RealtimeAccount(a)
  \/ \E fails \in FailSets({"insertAccount", "openingHistory"}) :
       \E t \in AccountTypes, c \in Currencies, st \in Statuses, b \in OpeningBalances :
         CreateAccount(t, c, st, b, fails)
  \/ \E fails \in FailSets({"updateAccount"}) : \E a \in AccountIds : \E f \in FormEdits(a) :
       EditAccountForm(a, f.account_type, f.currency, f.status, f.balance, fails)
  \/ \E fails \in FailSets({"updateAccount"}) : \E a \in AccountIds, st \in Statuses :
       HandleEdit(a, st, fails)
  \/ \E fails \in FailSets({"deleteAccount"}) : \E a \in AccountIds : HandleDelete(a, fails)
  \/ \E fails \in FailSets({"update", "history"}) : \E a \in AccountIds, input \in BalanceInputs :
       HandleBalanceUpdate(a, input, fails)

SpecAccounts == InitEmpty /\ [][NextAccounts]_vars

\* the expenses page on its own: expense handlers, with the account form
NextExpense ==
  \/ \E fails \in FailSets({"updateAccount"}) : \E a \in AccountIds : \E f \in FormEdits(a) :
       EditAccountForm(a, f.account_type, f.currency, f.status, f.balance, fails)
  \/ OpenNewExpenseDialog
  \/ LoadExpensesPage
  \/ \E e \in ExpenseIds : RealtimeExpense(e)
  \/ \E fails \in FailSets({"insertExpense", "read", "update", "history"}) :
       \E amount \in ExpenseAmounts, c \in Currencies, a \in AccountIds \cup {NoId} :
         \E stored \in {amount, StoreNumeric(amount)} :
           SubmitExpense(amount, stored, c, a, fails)
  \/ \E fails \in FailSets({"deleteExpense", "read", "update", "history"}) : \E e \in ExpenseIds :
       HandleDeleteExpense(e, fails)
  \/ \E e \in ExpenseIds : OpenEdit(e)
  \/ CloseEdit
  \/ \E fails \in FailSets({"updateExpense", "read", "update", "history"}) :
       \E input \in EditInputs, c \in Currencies :
         HandleEditExpense(input, c, fails)

SpecExpense == InitExpense /\ [][NextExpense]_vars

\* every writer of balances and history entries side by side, from the two
\* accounts of Init: the posting an expense handler makes, the manual
\* correction, the transfer, the account edits and the deletion
HistoryPostAmounts == {10}
NextHistory ==
  \/ \E fails \in FailSets({"read", "update", "history"}) :
       \E a \in AccountIds, amount \in HistoryPostAmounts, o \in Operations :
         Post(a, amount, "bank_account", o, fails)
  \/ \E fails \in FailSets({"update", "history"}) : \E a \in AccountIds, input \in BalanceInputs :
       HandleBalanceUpdate(a, input, fails)
  \/ \E a \in AccountIds \cup {NoId} : OpenTransfer(a)
  \/ \E a \in AccountIds : SelectTo(a)
  \/ \E fails \in FailSets({"fromUpdate", "toUpdate", "transferHistory", "transferRecord"}) :
       \E input \in TransferInputs :
         HandleTransfer(input, fails)
  \/ \E fails \in FailSets({"updateAccount"}) : \E a \in AccountIds : \E f \in FormEdits(a) :
       EditAccountForm(a, f.account_type, f.currency, f.status, f.balance, fails)
  \/ \E fails \in FailSets({"updateAccount"}) : \E a \in AccountIds, st \in Statuses :
       HandleEdit(a, st, fails)
  \/ \E fails \in FailSets({"deleteAccount"}) : \E a \in AccountIds : HandleDelete(a, fails)

SpecHistory == Init /\ [][NextHistory]_vars

\* the accounts page while expense handlers post against the same accounts
\* from another page: the table hears of a posting when its realtime event
\* is delivered (RealtimeAccount) or the page is loaded again
NextShared ==
  \/ \E fails \in FailSets({"read", "update", "history"}) :
       \E a \in AccountIds, amount \in HistoryPostAmounts, o \in Operations :
         Post(a, amount, accounts[a].account_type, o, fails)
  \/ Next

SpecShared == Init /\ [][NextShared]_vars

\* the transfer dialog with handleTransfer taken one store call at a time
NextTransferSteps ==
  \/ \E a \in AccountIds \cup {NoId} : OpenTransfer(a)
  \/ \E a \in AccountIds : SelectFrom(a)
  \/ \E a \in AccountIds : SelectTo(a)
  \/ CloseTransfer
  \/ \E input \in TransferInputs : BeginTransfer(input)
  \/ \E call \in xfer.inFlight : \E ok \in CallOutcomes :
       TransferCallReturns(call, ok)

SpecTransferSteps == Init /\ [][NextTransferSteps]_vars

\* the expenses page with one expense logged, handleDelete taken click by
\* click
InitDelete == \E t2 \in AccountTypes : InitLogged(t2)

NextDeleteSteps ==
  \/ \E e \in ExpenseIds : OpenDelete(e)
  \/ CancelDelete
  \/ \E i \in DeleteCallIds : ClickDelete(i)
  \/ \E i \in DeleteCallIds : \E ok \in CallOutcomes : DeleteApplied(i, ok)
  \/ \E i \in DeleteCallIds : \E fails \in SUBSET {"read", "update", "history"} :
       DeleteReturns(i, fails)
  \/ \E e \in ExpenseIds : RealtimeExpense(e)

SpecDeleteSteps == InitDelete /\ [][NextDeleteSteps]_vars

\* the FX rate cache of one server process, with callers that overlap
NextFx ==
  \/ Tick
  \/ \E c \in CallerIds, base \in FxBases : BeginGetExchangeRates(c, base)
  \/ \E c \in CallerIds : \E outcome \in FetchOutcomes(fxCalls[c].base) :
       EndGetExchangeRates(c, outcome)

SpecFx == InitEmpty /\ [][NextFx]_vars

\* the FX rate cache with the calls made one after the other
NextFxCalls ==
  \/ Tick
  \/ \E base \in FxBases :
       \E outcome \in FetchOutcomes(base) :
         GetExchangeRates(base, outcome)

SpecFxCalls == InitEmpty /\ [][NextFxCalls]_vars

\* convertAmount on its own, on every table getExchangeRates returns
NextConvert ==
  \E amount \in ConvertInputs, from \in FromCurrencies, rates \in ProducedTables :
    Convert(amount, from, rates)

SpecConvert == InitEmpty /\ [][NextConvert]_vars

\* The detail page of account 1, a bank account whose history holds up to
\* MaxEntries rows written on the days up to today: the opening entry, then
\* one entry per deleted expense of 0.01.  No page has been loaded.
InitDetail ==
  \E n \in 1..MaxEntries, t \in 0..MaxDay :
    \E d \in [1..n -> 0..t], b1 \in OpeningBalances :
      /\ \A i \in 1..(n - 1) : d[i] <= d[i + 1]
      /\ accounts = [a \in AccountIds |->
                       IF a = 1 THEN [exists |-> TRUE, account_type |-> "bank_account",
                                      currency |-> "PHP", current_balance |-> b1 + 10 * (n - 1),
                                      status |-> "active"]
                       ELSE NoAccount]
      /\ history = [a \in AccountIds |->
                      IF a = 1
                        THEN [i \in 1..n |->
                                [id |-> i, balance_date |-> d[i], balance |-> b1 + 10 * (i - 1),
                                 note |-> IF i = 1 THEN "Opening balance" ELSE "Expense removed"]]
                        ELSE << >>]
      /\ transfers = << >>
      /\ expenses = [e \in ExpenseIds |-> NoExpense]
      /\ nextAccountId = 2
      /\ nextExpenseId = 1
      /\ tblAccounts = [a \in AccountIds |-> NoSnapshot]
      /\ transferOpen = FALSE
      /\ transferFromId = NoId
      /\ transferToId = NoId
      /\ formAccounts = [a \in AccountIds |-> NoOption]
      /\ expAccounts = [a \in AccountIds |-> NoOption]
      /\ expLocal = [e \in ExpenseIds |-> NoExpense]
      /\ editExpense = NoEdit
      /\ last = LastNone
      /\ ops = 0
      /\ faults = 0
      /\ FxIdle
      /\ RaceIdle
      /\ StepIdle
      /\ today = t
      /\ detailAccount = NoDetail
      /\ detailHistory = << >>
      /\ chart = NoChart

NextDetail ==
  \/ \E a \in AccountIds : \E p \in TieOrders(history[a]) : LoadDetailPage(a, p)
  \/ Rerender
  \/ \E fails \in FailSets({"update", "history"}) : \E input \in BalanceInputs :
       DetailBalanceUpdate(input, fails)
  \/ NextDay

SpecDetail == InitDetail /\ [][NextDetail]_vars

\* ---------------------------------------------------------------- claims on the ledger
\* the step was made by the handler op
Ran(op) == ops' = ops + 1 /\ last'.op = op

LastEntry(a) == history[a][Len(history[a])]

\* C2: in every reachable state the current_balance of each account equals
\* the balance of its most recently appended history entry.
C2_BalanceEqualsLastHistory ==
  \A a \in AccountIds :
    accounts[a].exists =>
      Len(history[a]) > 0 /\ accounts[a].current_balance = LastEntry(a).balance

\* C3: a successful transfer of A between two accounts of the same currency
\* lowers the source by exactly A, raises a bank_account destination by
\* exactly A and lowers a credit_card destination by exactly A (here with
\* every store call of the transfer succeeding).
C3_TransferMovesExactlyA ==
  [][(/\ Ran("handleTransfer") /\ last'.toast = "Transferred" /\ last'.fails = {}
      /\ accounts[last'.acct].exists /\ accounts[last'.acct2].exists
      /\ accounts[last'.acct].currency = accounts[last'.acct2].currency)
       => LET f == last'.acct
              t == last'.acct2
              A == last'.amount
          IN /\ accounts'[f].current_balance = accounts[f].current_balance - A
             /\ accounts[t].account_type = "bank_account"
                  => accounts'[t].current_balance = accounts[t].current_balance + A
             /\ accounts[t].account_type = "credit_card"
                  => accounts'[t].current_balance = accounts[t].current_balance - A]_vars

\* the request handleTransfer is given does not pass validation: an id is
\* missing, both ids are the same, the amount is not a number above 0, an id
\* is not in the list of the table, or the two currencies differ
InvalidRequest(fromId, toId, amount, accts) ==
  IF fromId = NoId \/ toId = NoId THEN TRUE
  ELSE IF fromId = toId THEN TRUE
  ELSE IF amount <= 0 THEN TRUE
  ELSE IF ~accts[fromId].present \/ ~accts[toId].present THEN TRUE
  ELSE accts[fromId].currency # accts[toId].currency

\* C4: a transfer request that fails validation writes nothing: no account
\* balance, history entry or transfer record changes.
C4_InvalidTransferWritesNothing ==
  [][(Ran("handleTransfer")
      /\ InvalidRequest(transferFromId, transferToId, last'.amount, tblAccounts))
       => UNCHANGED <<accounts, history, transfers>>]_vars

\* a transfer between accounts of different currencies was turned down
C4_Witness ==
  /\ last.op = "handleTransfer"
  /\ last.toast = "Cannot transfer between different currencies"
  /\ last.amount > 0
  /\ transferOpen /\ transferFromId # NoId /\ transferToId # NoId
  /\ tblAccounts[transferFromId].currency # tblAccounts[transferToId].currency

\* C5: a transfer whose source or destination is closed is rejected before
\* any write.
C5_ClosedAccountTransferRejected ==
  [][(/\ Ran("handleTransfer")
      /\ transferFromId # NoId /\ transferToId # NoId
      /\ IF transferFromId = NoId \/ transferToId = NoId THEN FALSE
         ELSE /\ tblAccounts[transferFromId].present /\ tblAccounts[transferToId].present
              /\ \/ tblAccounts[transferFromId].status = "closed"
                 \/ tblAccounts[transferToId].status = "closed")
       => UNCHANGED <<accounts, history, transfers>>]_vars

\* the destination update of the transfer failed after the source update
DestinationFailed(l) ==
  l.op = "handleTransfer" /\ "toUpdate" \in l.fails /\ "fromUpdate" \notin l.fails

\* C6: when the destination update fails after the source update succeeded,
\* the source keeps the debited balance, the destination is unchanged, no
\* history entry and no transfer record is written, and the user is told.
C6_PartialTransferKeepsDebit ==
  [][(ops' = ops + 1 /\ DestinationFailed(last') /\ accounts[transferFromId].exists)
       => /\ accounts'[transferFromId].current_balance =
               StoreNumeric(tblAccounts[transferFromId].current_balance - last'.amount)
          /\ accounts'[transferToId] = accounts[transferToId]
          /\ history' = history
          /\ transfers' = transfers
          /\ last'.toast = "Failed to update target account"]_vars

\* a transfer of one cent stopped at the destination update: the source is
\* one cent lower than its opening balance and has no second history entry
C6_Witness ==
  /\ DestinationFailed(last) /\ last.amount = 10
  /\ accounts[last.acct].exists
  /\ Len(history[last.acct]) = 1
  /\ accounts[last.acct].current_balance = history[last.acct][1].balance - 10
  /\ accounts[last.acct2].current_balance = history[last.acct2][1].balance
  /\ transfers = <<>>

\* C7: every transfer reported as successful has exactly one transfer record,
\* and a transfer not reported as successful has none.
C7_OneRecordPerSuccess ==
  [][Ran("handleTransfer")
       => IF last'.toast = "Transferred"
            THEN Len(transfers') = Len(transfers) + 1
            ELSE transfers' = transfers]_vars

\* C8: when a balance update succeeds and the history insert or the transfer
\* insert of the same operation fails, the user is not shown a plain success.
C8_LaterFailureIsReported ==
  [][(/\ ops' = ops + 1
      /\ \/ last'.op = "handleTransfer"
            /\ last'.fails \cap {"transferHistory", "transferRecord"} # {}
         \/ last'.op = "handleBalanceUpdate" /\ "history" \in last'.fails
         \/ last'.op \in {"submitExpense", "handleDeleteExpense"}
            /\ last'.posted /\ last'.fails = {"history"})
       => last'.toast \notin {"Transferred", "Balance updated", "Expense logged",
                              "Expense deleted"}]_vars

C11_SameAmountEditPostsNothing ==
  [][(/\ Ran("handleEditExpense")
      /\ editExpense.account_id # NoId
      /\ last'.toast # "Enter a valid amount"
      /\ last'.amount = editExpense.amount)
       => accounts' = accounts /\ history' = history]_vars

\* C11: an edit with the amount left as it was has been saved for an expense
\* linked to an account that exists and that the table knows
C11_Witness ==
  /\ last.op = "handleEditExpense"
  /\ last.toast = "Expense updated"
  /\ last.acct # NoId
  /\ last.amount = last.old
  /\ IF last.acct = NoId THEN FALSE
     ELSE accounts[last.acct].exists /\ expAccounts[last.acct].present

\* C12: an edit of a linked expense from the stored amount a to the stored
\* amount b, a # b, with every store call succeeding, makes exactly one
\* posting of |b - a| on the linked account under the type of that account,
\* add when b > a and remove when b < a: the balance moves by that posting and
\* one history entry records it.  For the expense logged first against the
\* account (opening balance, then the expense, nothing else written since) the
\* balance after the edit is the one the account would have had with the
\* expense created at b.
C12_EditPostsDifference ==
  [][(/\ Ran("handleEditExpense")
      /\ last'.toast = "Expense updated" /\ last'.fails = {}
      /\ editExpense.account_id # NoId
      /\ expenses[editExpense.id].exists
      /\ expenses[editExpense.id].account_id = editExpense.account_id
      /\ accounts[editExpense.account_id].exists
      /\ expenses'[editExpense.id].amount # expenses[editExpense.id].amount)
       => LET acct == editExpense.account_id
              a == expenses[editExpense.id].amount
              b == expenses'[editExpense.id].amount
              t == accounts[acct].account_type
              diff == IF b > a THEN b - a ELSE a - b
              operation == IF b > a THEN "add" ELSE "remove"
              newBalance == Round2(accounts[acct].current_balance + Delta(t, operation, diff))
          IN /\ accounts'[acct].current_balance = newBalance
             /\ history'[acct] = Append(history[acct],
                                        [balance |-> newBalance, note |-> "Expense edited"])
             /\ (/\ ops = 0
                 /\ Len(history[acct]) = 2
                 /\ history[acct][1].note = "Opening balance"
                 /\ history[acct][2].note = "Expense")
                  => accounts'[acct].current_balance
                       = Round2(history[acct][1].balance + Delta(t, "add", b))]_vars

\* C13: when the read of the account fails in the posting of an expense
\* create, edit or delete, no account row and no history list changes, the
\* expense itself is written and the handler reports success.
C13_UnreadablePostingSkipped ==
  [][(/\ \/ Ran("submitExpense") \/ Ran("handleEditExpense") \/ Ran("handleDeleteExpense")
      /\ "read" \in last'.fails)
       => /\ accounts' = accounts
          /\ history' = history
          /\ CASE last'.op = "submitExpense" ->
                    /\ last'.toast = "Expense logged"
                    /\ ~expenses[last'.exp].exists /\ expenses'[last'.exp].exists
               [] last'.op = "handleEditExpense" ->
                    /\ last'.toast = "Expense updated"
                    /\ expenses[last'.exp].exists
                         => expenses'[last'.exp].amount = Round2(last'.amount)
               [] OTHER ->
                    /\ last'.toast = "Expense deleted"
                    /\ ~expenses'[last'.exp].exists]_vars

\* C13: an expense edit whose posting could not read the account has run
C13_Witness ==
  /\ last.op = "handleEditExpense"
  /\ "read" \in last.fails
  /\ last.toast = "Expense updated"
  /\ last.amount # last.old

\* ---------------------------------------------------------------- claims on FX rates
\* no getExchangeRates call is waiting for the provider
NoCallUnderWay == \A c \in CallerIds : ~fxCalls[c].fetching

\* the step is the start of a getExchangeRates(base) call: it returns the
\* cached table at once or sends a request
CallStarted(base) ==
  \/ lastFx' # lastFx /\ lastFx'.op = "hit" /\ lastFx'.base = base
  \/ \E c \in CallerIds : ~fxCalls[c].fetching /\ fxCalls'[c].fetching /\ fxCalls'[c].base = base

\* the step is the end of the call of caller c
CallEnded(c) == fxCalls[c].fetching /\ ~fxCalls'[c].fetching

\* C14: of two getExchangeRates calls for the same base, one after the other
\* and less than 24 hours apart, the first of which contacted the provider,
\* the second returns the table of the first without contacting the provider;
\* a call made 24 hours or more after the fetch of the cached entry of its base
\* contacts the provider once and, when it ends, has replaced the entry.
C14_CacheWithinTtlRefreshAfter ==
  [][\A base \in FxBases :
       /\ (/\ CallStarted(base)
           /\ NoCallUnderWay
           /\ lastFx.op \in {"refresh", "threw"} /\ lastFx.base = base
           /\ now - lastFx.at < CACHE_TTL)
            => /\ fetches' = fetches
               /\ lastFx'.op = "hit"
               /\ lastFx'.rates = lastFx.rates
       /\ (/\ CallStarted(base)
           /\ NoCallUnderWay
           /\ cache.present /\ cache.base = base
           /\ now - cache.fetchedAt >= CACHE_TTL)
            => fetches' = fetches + 1
       /\ \A c \in CallerIds :
            (/\ CallEnded(c)
             /\ fxCalls[c].base = base
             /\ \A d \in CallerIds \ {c} : ~fxCalls[d].fetching
             /\ cache.present /\ cache.base = base
             /\ fxCalls[c].at - cache.fetchedAt >= CACHE_TTL)
              => /\ fetches' = fetches
                 /\ cache'.present /\ cache'.base = base
                 /\ cache'.fetchedAt = fxCalls[c].at
                 /\ cache'.rates = lastFx'.rates]_vars

\* C15: a getExchangeRates call whose request went out always returns a table,
\* and when the provider call failed (an answer that is not ok, or a transport
\* error) the table holds the entry base -> 1 and nothing else.
C15_NeverThrows ==
  [][\A c \in CallerIds :
       CallEnded(c)
         => /\ lastFx'.op = "refresh"
            /\ lastFx'.outcome \in {"notOk", "error"}
                 => lastFx'.rates = <<[k |-> lastFx'.base, v |-> RateScale]>>]_vars

\* C16: convertAmount(x, c, rates) returns x when c is empty, when rates[c] is
\* exactly 1 or when rates has no entry for c, on every table getExchangeRates
\* returns, also one in which a currency other than the base has the rate 1.
C16_ConvertIdentity ==
  (/\ converted.done
   /\ \/ converted.from = ""
      \/ Lookup(converted.rates, converted.from) = RateScale
      \/ Lookup(converted.rates, converted.from) = 0)
    => converted.result = converted.amount

\* C16: the base currency converted on a table whose first entry with rate 1
\* is another currency
C16_Witness ==
  /\ converted.done
  /\ converted.amount > 0
  /\ Lookup(converted.rates, converted.from) = RateScale
  /\ FirstUnitKey(converted.rates) # converted.from
  /\ converted.result = converted.amount

\* ---------------------------------------------------------------- claims on the history
\* the entries of old are the first entries of new, in the same order
IsPrefix(old, new) == Len(old) <= Len(new) /\ SubSeq(new, 1, Len(old)) = old

\* the account's row leaves the store in this step and its history with it
DeleteCascade(a) == accounts[a].exists /\ ~accounts'[a].exists /\ history'[a] = <<>>

\* C17: no step updates or removes a history entry an account already has,
\* except the deletion of the account, which removes all of them: in every
\* other step each account's list of entries keeps its entries and can only
\* grow at the end.
C17_HistoryAppendOnly ==
  [][\A a \in AccountIds : IsPrefix(history[a], history'[a]) \/ DeleteCascade(a)]_vars

\* C17 witness: a posting and then a transfer have each added an entry after
\* the opening entry of the same account, all three still there in order.
C17_Witness ==
  /\ last.op = "handleTransfer"
  /\ \E a \in AccountIds :
       /\ Len(history[a]) = 3
       /\ history[a][1].note = "Opening balance"
       /\ history[a][2].note = "Expense"
       /\ history[a][3].note = "Transfer"

\* the step was made by a handler whose store calls all succeeded (the insert
\* of a transfer's history rows is refused when one of the two accounts is gone)
RanAllSucceeding ==
  /\ ops' = ops + 1
  /\ last'.fails = {}
  /\ last'.op = "handleTransfer" =>
       \/ last'.acct = NoId
       \/ last'.acct2 = NoId
       \/ accounts[last'.acct].exists /\ accounts[last'.acct2].exists

\* the step appended to account a one entry that carries its new balance
AppendedNewBalance(a) ==
  /\ Len(history'[a]) = Len(history[a]) + 1
  /\ IsPrefix(history[a], history'[a])
  /\ history'[a][Len(history'[a])].balance = accounts'[a].current_balance

\* C18: when all store calls of an operation succeed, every account whose
\* stored current_balance the operation changed also got one new history
\* entry carrying the new balance: no step changes current_balance without
\* a history entry.
C18_BalanceChangeAppendsHistory ==
  [][RanAllSucceeding =>
       \A a \in AccountIds :
         (/\ accounts[a].exists /\ accounts'[a].exists
          /\ accounts'[a].current_balance # accounts[a].current_balance)
           => AppendedNewBalance(a)]_vars

\* ---------------------------------------------------------------- claims on the shared accounts
\* the balances a transfer of amount writes when it starts from the balances
\* from and to hold in the store; toType is the type the handler read
TransferFromStore(from, amount) == StoreNumeric(accounts[from].current_balance - amount)
TransferToStore(to, toType, amount) ==
  StoreNumeric(IF toType = "credit_card" THEN accounts[to].current_balance - amount
               ELSE accounts[to].current_balance + amount)

\* C19: the balances a transfer writes are computed from the balances the
\* store holds for the two accounts when the transfer runs, whether or not
\* the realtime events of earlier postings reached the table: a transfer
\* whose calls all succeed leaves the source at its stored balance less the
\* amount and the destination at its stored balance moved by the amount.
C19_TransferUsesStoreBalances ==
  [][(/\ Ran("handleTransfer") /\ last'.toast = "Transferred" /\ last'.fails = {}
      /\ accounts[last'.acct].exists /\ accounts[last'.acct2].exists)
       => /\ accounts'[last'.acct].current_balance = TransferFromStore(last'.acct, last'.amount)
          /\ accounts'[last'.acct2].current_balance =
               TransferToStore(last'.acct2, tblAccounts[last'.acct2].account_type, last'.amount)]_vars

\* ---------------------------------------------------------------- claims on overlapping postings
\* the calls p and q are distinct postings against one account whose selects
\* returned the same stored balance, no update of that balance in between,
\* and whose updates both took effect, the one of q last of all
BothReadSameThenWrote(p, q) ==
  /\ p # q
  /\ postings[p].wrote /\ postings[q].wrote
  /\ postings[p].acct = postings[q].acct
  /\ postings[p].seen = postings[q].seen
  /\ balanceWrites[postings[q].acct][Len(balanceWrites[postings[q].acct])] = q

PostingDelta(p) == Delta(postings[p].accountType, postings[p].operation, postings[p].amount)

\* C20: when two postings against the same account both read the same
\* stored balance and both write, the stored balance afterwards is the
\* balance read plus the delta of the posting that wrote last only: the
\* delta of the other posting is lost.
C20_LastWriterWins ==
  \A p \in PosterIds, q \in PosterIds :
    BothReadSameThenWrote(p, q) =>
      accounts[postings[q].acct].current_balance =
        StoreNumeric(Round2(postings[q].current + PostingDelta(q)))

\* C20 witness: the interleaving exists. Two postings of 0.01 read the same
\* balance, both have returned, and the stored balance differs from the
\* balance read by the delta of the last writer alone, not by both deltas.
C20_Witness ==
  \E p \in PosterIds, q \in PosterIds :
    /\ BothReadSameThenWrote(p, q)
    /\ postings[p].pc = "done" /\ postings[q].pc = "done"
    /\ PostingDelta(p) # 0
    /\ postings[p].current = postings[q].current
    /\ accounts[postings[q].acct].current_balance = postings[q].current + PostingDelta(q)
    /\ accounts[postings[q].acct].current_balance #
         postings[q].current + PostingDelta(p) + PostingDelta(q)

\* ---------------------------------------------------------------- claims on the order of the transfer's writes
\* the calls sent so far, in the order they were sent
SentCalls == SelectSeq(xfer.log, LAMBDA e : e.ev = "sent")

\* C21: a transfer sends its writes in the order source update, destination
\* update, history entries, transfer record, and never has two of them under
\* way: each is sent only after the one before it has returned; a transfer
\* reported as done has sent all four.
C21_TransferWritesInOrder ==
  /\ Cardinality(xfer.inFlight) <= 1
  /\ Len(SentCalls) <= Len(TransferOrder)
  /\ \A i \in 1..Len(SentCalls) : SentCalls[i].call = TransferOrder[i]
  /\ \A i \in 1..Len(xfer.log) :
       (xfer.log[i].ev = "sent" /\ i > 1) =>
         (xfer.log[i - 1].ev = "returned" /\ xfer.log[i - 1].call = TransferOrder[
            Len(SelectSeq(SubSeq(xfer.log, 1, i), LAMBDA e : e.ev = "sent")) - 1])
  /\ xfer.toast = "Transferred" => Len(SentCalls) = Len(TransferOrder)

\* C21 witness: a transfer has ended with "Transferred", its four writes
\* sent and returned one after the other.
C21_Witness ==
  /\ ~xfer.running
  /\ xfer.toast = "Transferred"
  /\ Len(xfer.log) = 8
  /\ transfers # << >>

\* ---------------------------------------------------------------- claims on the FX cache under concurrent callers
\* the table is what one answer of the provider for base gives: its rates
\* with the entry of base set to 1
CompleteTable(rates, base) ==
  /\ \E t \in ProviderTables(base) : rates = SetKey(t, base, RateScale)
  /\ Lookup(rates, base) = RateScale

\* C22: also while refreshes of concurrent callers are under way, the cache
\* is empty or holds one complete table of a single fetch with rates[base] = 1
\* for its base, replaced as a whole only when a call ends; a caller gets
\* the table the cache held (a hit) or the complete table of its own fetch
\* (a refresh), never entries of two fetches.
C22_CacheNeverTorn ==
  [][/\ cache'.present => CompleteTable(cache'.rates, cache'.base)
     /\ (\A c \in CallerIds : ~CallEnded(c)) => cache' = cache
     /\ (lastFx' # lastFx /\ lastFx'.op = "hit")
          => (cache.present /\ lastFx'.rates = cache.rates)
     /\ \A c \in CallerIds :
          (CallEnded(c) /\ lastFx'.op = "refresh")
            => /\ lastFx'.rates = SetKey(lastFx'.fetched, lastFx'.base, RateScale)
               /\ cache'.rates = lastFx'.rates
               /\ cache'.base = lastFx'.base]_vars

\* C22 witness: a caller's refresh has put its table into the cache, at
\* least three requests have gone out, and the refresh of another caller is
\* still under way.
C22_Witness ==
  /\ cache.present
  /\ lastFx.op = "refresh"
  /\ lastFx.rates = cache.rates
  /\ fetches >= 3
  /\ \E c \in CallerIds : fxCalls[c].fetching

\* ---------------------------------------------------------------- claims on the postings of an expense's deletion
\* C23: the deletion of an expense results in at most one posting against
\* the linked account, also when the Delete button is pressed again before
\* the first invocation of handleDelete has finished.
C23_OnePostingPerDelete ==
  \A e \in ExpenseIds : deletePostings[e] <= 1

\* ---------------------------------------------------------------- claims on the values written
WholeCents(x) == x % 10 = 0

\* the balance a posting sends to the store
PostingSends(l) == Round2(l.preBal + Delta(l.accountType, l.operation, l.amount))

\* C24: every balance a posting or a transfer writes to an account or to a
\* history entry is a whole number of cents, for every amount the validation
\* accepts, also one with more than two decimals. (The transfer puts the
\* balances it sent into the rows of its table.)
C24_WrittenBalancesWholeCents ==
  [][/\ (Ran("post") /\ PostWrote(last')) => WholeCents(PostingSends(last'))
     /\ (Ran("handleTransfer") /\ last'.toast = "Transferred")
          => /\ WholeCents(tblAccounts'[last'.acct].current_balance)
             /\ WholeCents(tblAccounts'[last'.acct2].current_balance)]_vars

\* ---------------------------------------------------------------- claims on the cache key
\* C25: rate tables are cached per base: with the calls made one after the
\* other, a getExchangeRates(base) call made less than 24 hours after the
\* fetch of the last table got for that base returns that table without
\* contacting the provider, whatever other bases were asked for in between
\* (getExchangeRates(A), getExchangeRates(B), getExchangeRates(A)).
C25_CachedPerBase ==
  [][\A base \in FxBases :
       (/\ lastFx' # lastFx
        /\ lastFx'.base = base
        /\ perBase[base].present
        /\ now - perBase[base].fetchedAt < CACHE_TTL)
         => /\ fetches' = fetches
            /\ lastFx'.op = "hit"
            /\ lastFx'.rates = perBase[base].rates]_vars

\* ---------------------------------------------------------------- claims on the balance series
\* the number of times the entry e occurs in the list
Occurrences(list, e) == Cardinality({i \in 1..Len(list) : list[i] = e})

\* C26: the balance series built from a list of history entries holds every
\* entry of the list exactly once, in non-decreasing balance_date order; the
\* build leaves the list as it was, and a second build from the same list
\* gives the same series.
C26_SeriesSortedInputKept ==
  chart.built =>
    /\ Len(chart.sorted) = Len(chart.input)
    /\ \A i \in 1..Len(chart.input) :
         Occurrences(chart.sorted, chart.input[i]) = Occurrences(chart.input, chart.input[i])
    /\ Len(chart.chartData) = Len(chart.sorted)
    /\ \A i \in 1..Len(chart.sorted) : chart.chartData[i] = ChartPoint(chart.sorted[i])
    /\ \A i, j \in 1..Len(chart.chartData) :
         i < j => chart.chartData[i].date <= chart.chartData[j].date
    /\ chart.history = chart.input
    /\ detailHistory = chart.input
    /\ chart.again => chart.chartData = chart.previous

\* C26 witness: a series was built a second time from a list of at least
\* two entries that starts with a later date than it ends with.
C26_Witness ==
  /\ chart.built
  /\ chart.again
  /\ Len(chart.input) >= 2
  /\ chart.input[1].balance_date > chart.input[Len(chart.input)].balance_date

\* ---------------------------------------------------------------- claims on the posting's two writes
\* C27: the history entry a posting writes records a balance that is stored
\* on the account when the posting is over; a posting whose update of the
\* account failed leaves no entry with a balance the account does not have.
C27_HistoryEntryOnlyWithStoredBalance ==
  [][(Ran("post") /\ history'[last'.acct] # history[last'.acct])
       => accounts'[last'.acct].current_balance
            = history'[last'.acct][Len(history'[last'.acct])].balance]_vars

\* ---------------------------------------------------------------- claims on the currency of a linked expense
\* the expense e is linked to an account of the store and has its currency
LinkedInAccountCurrency(exps, accts, e) ==
  (exps[e].exists /\ exps[e].account_id # NoId /\ accts[exps[e].account_id].exists)
     => exps[e].currency = accts[exps[e].account_id].currency

\* C28: the expense an expense create or an expense edit has written, when it
\* is linked to an account, has the currency of that account.
C28_LinkedExpenseInAccountCurrency ==
  [][(Ran("submitExpense") \/ Ran("handleEditExpense"))
       => LinkedInAccountCurrency(expenses', accounts', last'.exp)]_vars

\* ---------------------------------------------------------------- claims on the fallback table
\* the table { [base]: 1 }
BaseOnly(base) == <<[k |-> base, v |-> RateScale]>>

\* C29: with the calls made one after the other, a getExchangeRates(base)
\* call the provider answers with a non-success response stores {base: 1} as
\* the cache entry with the current time, and every call for that base made
\* less than 24 hours after it returns {base: 1} without contacting the
\* provider.
C29_FallbackCachedForTtl ==
  [][\A base \in FxBases :
       /\ (lastFx' # lastFx /\ lastFx'.base = base /\ lastFx'.outcome = "notOk")
            => cache' = [present |-> TRUE, base |-> base, rates |-> BaseOnly(base),
                         fetchedAt |-> now]
       /\ (/\ lastFx' # lastFx /\ lastFx'.base = base
           /\ perBase[base].present /\ perBase[base].outcome = "notOk"
           /\ now - perBase[base].fetchedAt < CACHE_TTL)
            => /\ fetches' = fetches
               /\ lastFx'.rates = BaseOnly(base)]_vars

\* ---------------------------------------------------------------- claims on the end of the balance series
\* the entry of the list that was appended to the history last
MostRecent(list) ==
  CHOOSE e \in {list[i] : i \in 1..Len(list)} : \A i \in 1..Len(list) : list[i].id <= e.id

\* C30: the last point of the balance series shown is the point of the entry
\* of the list that was appended to the history last, also when entries
\* share a balance_date.
C30_LastPointIsMostRecent ==
  (chart.built /\ chart.input # << >>)
     => chart.chartData[Len(chart.chartData)] = ChartPoint(MostRecent(chart.input))

====
